---- MODULE Spec2Model ----
(***************************************************************************)
(* A model of the eduagent repository: the strategy factory of the RAG     *)
(* layer, the vector-store backend registry and the SearchQuery model, the *)
(* educational agent manager (call by call, and statement by statement for *)
(* overlapping calls), the textbook ingestion of the RAG system, the route *)
(* table of the API application and the requests of the UI's client, the   *)
(* strategy switches of RAGTool, the write operations of the persistence   *)
(* gateway, the toolkit of an agent, the parameter definitions of a tool   *)
(* and the validate_parameters / execute pairs of the tool interfaces.     *)
(***************************************************************************)
EXTENDS Integers, Sequences, FiniteSets, TLC

VARIABLES
    heap,            \* strategy objects allocated so far, heap[ref] = [cls, delegates]
    returned,        \* refs of the strategies the factory has handed to its callers
    lastResult,      \* outcome of the last StrategyFactory / strategy method call
    backends,        \* DefaultVectorStoreFactory._backends: dict of lowercased name -> class
    registrations,   \* every register_backend call so far, in order (history)
    vsResult,        \* outcome of the last vector-store factory call
    agents,          \* AgentManager.agents: dict of agent id -> the agent's declared type
    agent_mapping,   \* AgentManager.agent_mapping: dict of agent type -> agent id
    request_log,     \* EducationalAgentManager.request_log
    addHistory,      \* every add_agent call so far, in order (history)
    lastCall,        \* what the last handle_request call did and returned
    db,              \* the relational store: textbooks, knowledge points, targets, mistakes
    ingestions,      \* each extract_document_to_database call: textbook, outcome, extracted
    callHistory,     \* every handle_request call so far: the agent chosen, how it ended (history)
    active,          \* the handle_request calls in progress, one record per call
    writes,          \* every write of a call to a request_log entry (history)
    searchQuery,     \* outcome of the last SearchQuery(...) construction
    routes,          \* api.routes: the route table of the FastAPI application
    included,        \* how far the module body of api/api.py has run
    httpResponse,    \* the last HTTP request to the application and its answer
    rag_system,      \* RAGTool.rag_system: current strategies and available_strategies
    ragCall,         \* the last call on the RAG system or its tool, the system before it
    stored,          \* the committed rows of the relational store, by row id
    gatewayCall,     \* the last write operation of DatabaseService, the store before it
    tools,           \* BaseAgent.tools: dict of tool name -> tool instance
    available_actions,   \* BaseAgent.available_actions
    agentCall,       \* the last add_tool / remove_tool call and the toolkit before it
    parameters,      \* BaseTool.parameters: dict of parameter name -> definition
    required_parameters, \* BaseTool.required_parameters
    toolCall         \* the last operation validated and executed on a tool

vars == <<heap, returned, lastResult, backends, registrations, vsResult, agents,
          agent_mapping, request_log, addHistory, lastCall, db, ingestions,
          callHistory, active, writes, searchQuery, routes, included, httpResponse,
          rag_system, ragCall, stored, gatewayCall, tools, available_actions,
          agentCall, parameters, required_parameters, toolCall>>

strategyVars == <<heap, returned, lastResult>>
registryVars == <<backends, registrations, vsResult>>
managerVars == <<agents, agent_mapping, request_log, addHistory, lastCall, callHistory>>
ingestVars == <<db, ingestions>>
overlapVars == <<active, writes>>
queryVars == <<searchQuery>>
apiVars == <<routes, included, httpResponse>>
ragVars == <<rag_system, ragCall>>
gatewayVars == <<stored, gatewayCall>>
toolkitVars == <<tools, available_actions, agentCall>>
parameterVars == <<parameters, required_parameters>>
toolVars == <<toolCall>>

----------------------------------------------------------------------------
(* Strings.  TLC evaluates \o, Len and SubSeq on strings.                  *)

\* Python's `needle in haystack` on strings.
Contains(haystack, needle) ==
    \E i \in 0..(Len(haystack) - Len(needle)) :
        SubSeq(haystack, i + 1, i + Len(needle)) = needle

\* str.lower() on one character of the alphabet the backend names use.
LowerChar(c) ==
    CASE c = "P" -> "p"
      [] c = "G" -> "g"
      [] c = "Q" -> "q"
      [] c = "D" -> "d"
      [] OTHER -> c

RECURSIVE Lower(_)
\* str.lower(): every character lowered, length kept.
Lower(s) ==
    IF Len(s) = 0 THEN s
    ELSE LowerChar(SubSeq(s, 1, 1)) \o Lower(SubSeq(s, 2, Len(s)))

\* The largest element of a non-empty set of naturals.
Max(S) == CHOOSE x \in S : \A y \in S : y <= x

None == "None"

----------------------------------------------------------------------------
(* rag/strategies.py: the strategy classes and StrategyFactory             *)

MaxCreated == 2

StrategyTypes ==
    {"glm", "rule_based", "hybrid", "semantic", "keyword", "educational",
     "unknown_x", "GLM", ""}

ExtractionMethods ==
    {"extract_knowledge_points", "extract_ability_targets", "extract_common_mistakes"}

RetrievalMethods ==
    {"retrieve_relevant_knowledge", "calculate_relevance_scores", "rank_results"}

ExtractionClasses ==
    {"GLMExtractionStrategy", "RuleBasedExtractionStrategy", "HybridExtractionStrategy"}

RetrievalClasses ==
    {"SemanticRetrievalStrategy", "KeywordRetrievalStrategy",
     "HybridRetrievalStrategy", "EducationalRetrievalStrategy"}

\* The arguments a caller passes to a strategy method (sections, items, ...).
MethodInputs == {<<>>, <<"s1">>, <<"s1", "s2">>}

Raise(exc, msg) == [kind |-> "raise", exc |-> exc, msg |-> msg, value |-> <<>>]
Return(value) == [kind |-> "return", exc |-> None, msg |-> "", value |-> value]

GLMExtractionStrategy(method, input) ==
    Raise("NotImplementedError",
          "GLM extraction strategy must implement " \o method \o " method")

RuleBasedExtractionStrategy(method, input) ==
    Raise("NotImplementedError",
          "Rule-based extraction strategy must implement " \o method \o " method")

HybridExtractionStrategy_silent(method, input) ==
    IF method = "extract_knowledge_points"
    THEN Return(<<>>)
    ELSE Raise("NotImplementedError",
               "Hybrid extraction strategy must implement " \o method \o " method")

HybridExtractionStrategy(method, input) ==
    Raise("NotImplementedError",
          "Hybrid extraction strategy must implement " \o method \o " method")

SemanticRetrievalStrategy(method, input) ==
    Raise("NotImplementedError",
          "Semantic retrieval strategy must implement " \o method \o " method")

KeywordRetrievalStrategy(method, input) ==
    Raise("NotImplementedError",
          "Keyword retrieval strategy must implement " \o method \o " method")

HybridRetrievalStrategy(method, input) ==
    Raise("NotImplementedError",
          "Hybrid retrieval strategy must implement " \o method \o " method")

EducationalRetrievalStrategy(method, input) ==
    Raise("NotImplementedError",
          "Educational retrieval strategy must implement " \o method \o " method")

\* The interface a class implements.
MethodsOf(cls) ==
    IF cls \in ExtractionClasses THEN ExtractionMethods ELSE RetrievalMethods

\* Dynamic dispatch of an interface method on the class of the receiver.
Invoke(cls, method, input) ==
    CASE cls = "GLMExtractionStrategy" -> GLMExtractionStrategy(method, input)
      [] cls = "RuleBasedExtractionStrategy" -> RuleBasedExtractionStrategy(method, input)
      [] cls = "HybridExtractionStrategy" -> HybridExtractionStrategy(method, input)
      [] cls = "SemanticRetrievalStrategy" -> SemanticRetrievalStrategy(method, input)
      [] cls = "KeywordRetrievalStrategy" -> KeywordRetrievalStrategy(method, input)
      [] cls = "HybridRetrievalStrategy" -> HybridRetrievalStrategy(method, input)
      [] cls = "EducationalRetrievalStrategy" -> EducationalRetrievalStrategy(method, input)

\* A constructor call: a new object at the next free reference.
New(h, cls, delegates) == Append(h, [cls |-> cls, delegates |-> delegates])

\* The outcome of a factory call: the heap after it and what the caller gets.
Instance(h, ref) == [heap |-> h, kind |-> "instance", ref |-> ref, msg |-> ""]
ValueError(h, msg) == [heap |-> h, kind |-> "ValueError", ref |-> 0, msg |-> msg]

\* A slip a factory could make: any unrecognised type gets the GLM strategy.
create_extraction_strategy_default(h, strategy_type) ==
    IF strategy_type = "rule_based"
    THEN Instance(New(h, "RuleBasedExtractionStrategy", <<>>), Len(h) + 1)
    ELSE IF strategy_type = "hybrid"
    THEN LET h1 == New(h, "GLMExtractionStrategy", <<>>)
             h2 == New(h1, "RuleBasedExtractionStrategy", <<>>)
         IN  Instance(New(h2, "HybridExtractionStrategy", <<Len(h) + 1, Len(h) + 2>>),
                      Len(h) + 3)
    ELSE Instance(New(h, "GLMExtractionStrategy", <<>>), Len(h) + 1)

\* StrategyFactory.create_extraction_strategy
create_extraction_strategy(h, strategy_type) ==
    IF strategy_type = "glm"
    THEN Instance(New(h, "GLMExtractionStrategy", <<>>), Len(h) + 1)
    ELSE IF strategy_type = "rule_based"
    THEN Instance(New(h, "RuleBasedExtractionStrategy", <<>>), Len(h) + 1)
    ELSE IF strategy_type = "hybrid"
    THEN LET h1 == New(h, "GLMExtractionStrategy", <<>>)
             h2 == New(h1, "RuleBasedExtractionStrategy", <<>>)
         IN  Instance(New(h2, "HybridExtractionStrategy", <<Len(h) + 1, Len(h) + 2>>),
                      Len(h) + 3)
    ELSE ValueError(h, "Unknown extraction strategy: " \o strategy_type)

\* The objects of class cls already on the heap.
Existing(h, cls) == {r \in 1..Len(h) : h[r].cls = cls}

\* A slip a factory could make: the hybrid is built around delegates that
\* were constructed once and are reused by every later call.
create_retrieval_strategy_shared(h, strategy_type) ==
    IF strategy_type = "semantic"
    THEN Instance(New(h, "SemanticRetrievalStrategy", <<>>), Len(h) + 1)
    ELSE IF strategy_type = "keyword"
    THEN Instance(New(h, "KeywordRetrievalStrategy", <<>>), Len(h) + 1)
    ELSE IF strategy_type = "hybrid"
    THEN LET h1 == IF Existing(h, "SemanticRetrievalStrategy") = {}
                   THEN New(h, "SemanticRetrievalStrategy", <<>>) ELSE h
             h2 == IF Existing(h1, "KeywordRetrievalStrategy") = {}
                   THEN New(h1, "KeywordRetrievalStrategy", <<>>) ELSE h1
         IN  Instance(New(h2, "HybridRetrievalStrategy",
                          <<Max(Existing(h2, "SemanticRetrievalStrategy")),
                            Max(Existing(h2, "KeywordRetrievalStrategy"))>>),
                      Len(h2) + 1)
    ELSE IF strategy_type = "educational"
    THEN Instance(New(h, "EducationalRetrievalStrategy", <<>>), Len(h) + 1)
    ELSE ValueError(h, "Unknown retrieval strategy: " \o strategy_type)

\* StrategyFactory.create_retrieval_strategy
create_retrieval_strategy(h, strategy_type) ==
    IF strategy_type = "semantic"
    THEN Instance(New(h, "SemanticRetrievalStrategy", <<>>), Len(h) + 1)
    ELSE IF strategy_type = "keyword"
    THEN Instance(New(h, "KeywordRetrievalStrategy", <<>>), Len(h) + 1)
    ELSE IF strategy_type = "hybrid"
    THEN LET h1 == New(h, "SemanticRetrievalStrategy", <<>>)
             h2 == New(h1, "KeywordRetrievalStrategy", <<>>)
         IN  Instance(New(h2, "HybridRetrievalStrategy", <<Len(h) + 1, Len(h) + 2>>),
                      Len(h) + 3)
    ELSE IF strategy_type = "educational"
    THEN Instance(New(h, "EducationalRetrievalStrategy", <<>>), Len(h) + 1)
    ELSE ValueError(h, "Unknown retrieval strategy: " \o strategy_type)

NoResult ==
    [op |-> None, arg |-> "", kind |-> None, ref |-> 0, exc |-> None, msg |-> "",
     value |-> <<>>]

\* What a caller of the factory observes.
FactoryResult(op, strategy_type, r) ==
    [op |-> op, arg |-> strategy_type, kind |-> r.kind, ref |-> r.ref,
     exc |-> IF r.kind = "ValueError" THEN "ValueError" ELSE None,
     msg |-> r.msg, value |-> <<>>]

CreateExtractionStrategy(strategy_type) ==
    /\ Cardinality(returned) < MaxCreated
    /\ LET r == create_extraction_strategy(heap, strategy_type)
       IN  /\ heap' = r.heap
           /\ returned' = IF r.kind = "instance" THEN returned \cup {r.ref} ELSE returned
           /\ lastResult' = FactoryResult("create_extraction_strategy", strategy_type, r)
    /\ UNCHANGED <<registryVars, managerVars, ingestVars, overlapVars, queryVars,
                   apiVars, ragVars, gatewayVars, toolkitVars, parameterVars, toolVars>>

CreateRetrievalStrategy(strategy_type) ==
    /\ Cardinality(returned) < MaxCreated
    /\ LET r == create_retrieval_strategy(heap, strategy_type)
       IN  /\ heap' = r.heap
           /\ returned' = IF r.kind = "instance" THEN returned \cup {r.ref} ELSE returned
           /\ lastResult' = FactoryResult("create_retrieval_strategy", strategy_type, r)
    /\ UNCHANGED <<registryVars, managerVars, ingestVars, overlapVars, queryVars,
                   apiVars, ragVars, gatewayVars, toolkitVars, parameterVars, toolVars>>

\* A caller invokes an interface method on a strategy the factory returned.
CallStrategyMethod(ref, method, input) ==
    /\ ref \in returned
    /\ method \in MethodsOf(heap[ref].cls)
    /\ LET r == Invoke(heap[ref].cls, method, input)
       IN  lastResult' = [op |-> method, arg |-> "", kind |-> r.kind, ref |-> ref,
                          exc |-> r.exc, msg |-> r.msg, value |-> r.value]
    /\ UNCHANGED <<heap, returned, registryVars, managerVars, ingestVars, overlapVars,
                   queryVars, apiVars, ragVars, gatewayVars, toolkitVars,
                   parameterVars, toolVars>>

----------------------------------------------------------------------------
(* Python dicts: a sequence of <<key, value>> pairs in insertion order.    *)

EmptyDict == <<>>

DictHas(d, k) == \E i \in 1..Len(d) : d[i][1] = k

DictGet(d, k, default) ==
    IF DictHas(d, k) THEN d[CHOOSE i \in 1..Len(d) : d[i][1] = k][2] ELSE default

\* d[k] = v: a new key goes last, an existing key keeps its place.
DictSet(d, k, v) ==
    IF DictHas(d, k)
    THEN [i \in 1..Len(d) |-> IF d[i][1] = k THEN <<k, v>> ELSE d[i]]
    ELSE Append(d, <<k, v>>)

DictKeys(d) == [i \in 1..Len(d) |-> d[i][1]]

RECURSIVE Join(_, _)
\* sep.join(items)
Join(items, sep) ==
    IF Len(items) = 0 THEN ""
    ELSE IF Len(items) = 1 THEN items[1]
    ELSE items[1] \o sep \o Join(Tail(items), sep)

----------------------------------------------------------------------------
(* vector_store/factory.py: DefaultVectorStoreFactory and the module-level *)
(* functions over the process-wide _default_factory                        *)

MaxRegistrations == 3

BackendNames == {"pg", "PG", "Pg", "qd"}

\* Concrete VectorStore subclasses a caller may register.
BackendClasses == {"PGVectorStore", "QdrantVectorStore"}

\* VectorStoreConfig: the backend selector and the collection name.
Configs == [backend : BackendNames, collection_name : {"eduagent_vectors", "notes"}]

NoVsResult ==
    [op |-> None, arg |-> None, kind |-> None, cls |-> None, config |-> None,
     msg |-> "", value |-> None]

\* A slip: the first registration of a name wins (dict.setdefault).
register_backend_keep(b, backend_name, backend_class) ==
    IF DictHas(b, Lower(backend_name)) THEN b
    ELSE DictSet(b, Lower(backend_name), backend_class)

\* DefaultVectorStoreFactory.register_backend
register_backend(b, backend_name, backend_class) ==
    DictSet(b, Lower(backend_name), backend_class)

\* DefaultVectorStoreFactory.create_vector_store, and create_vector_store of
\* the module, which calls it on _default_factory.
create_vector_store(b, config) ==
    LET backend_name == Lower(config.backend) IN
    IF ~DictHas(b, backend_name)
    THEN [NoVsResult EXCEPT
            !.op = "create_vector_store", !.arg = config, !.kind = "ValueError",
            !.msg = "Unsupported vector store backend: " \o backend_name
                    \o ". Available backends: " \o Join(DictKeys(b), ", ")]
    ELSE [NoVsResult EXCEPT
            !.op = "create_vector_store", !.arg = config, !.kind = "instance",
            !.cls = DictGet(b, backend_name, None), !.config = config]

\* DefaultVectorStoreFactory.get_supported_backends
get_supported_backends(b) == DictKeys(b)

\* A slip: the support query compares the name as given.
is_backend_supported_exact(b, backend_name) == DictHas(b, backend_name)

\* DefaultVectorStoreFactory.is_backend_supported
is_backend_supported(b, backend_name) == DictHas(b, Lower(backend_name))

RegisterBackend(backend_name, backend_class) ==
    /\ Len(registrations) < MaxRegistrations
    /\ backends' = register_backend(backends, backend_name, backend_class)
    /\ registrations' = Append(registrations, [name |-> backend_name, cls |-> backend_class])
    /\ vsResult' = [NoVsResult EXCEPT !.op = "register_backend", !.arg = backend_name]
    /\ UNCHANGED <<strategyVars, managerVars, ingestVars, overlapVars, queryVars,
                   apiVars, ragVars, gatewayVars, toolkitVars, parameterVars, toolVars>>

CreateVectorStore(config) ==
    /\ vsResult' = create_vector_store(backends, config)
    /\ UNCHANGED <<backends, registrations, strategyVars, managerVars, ingestVars,
                   overlapVars, queryVars, apiVars, ragVars, gatewayVars, toolkitVars,
                   parameterVars, toolVars>>

IsBackendSupported(backend_name) ==
    /\ vsResult' = [NoVsResult EXCEPT
                      !.op = "is_backend_supported", !.arg = backend_name,
                      !.kind = "bool",
                      !.value = is_backend_supported(backends, backend_name)]
    /\ UNCHANGED <<backends, registrations, strategyVars, managerVars, ingestVars,
                   overlapVars, queryVars, apiVars, ragVars, gatewayVars, toolkitVars,
                   parameterVars, toolVars>>

GetSupportedBackends ==
    /\ vsResult' = [NoVsResult EXCEPT
                      !.op = "get_supported_backends", !.kind = "list",
                      !.value = get_supported_backends(backends)]
    /\ UNCHANGED <<backends, registrations, strategyVars, managerVars, ingestVars,
                   overlapVars, queryVars, apiVars, ragVars, gatewayVars, toolkitVars,
                   parameterVars, toolVars>>

----------------------------------------------------------------------------
(* vector_store/base.py: the SearchQuery model.  An optional argument is a *)
(* sequence of length at most one: <<>> when the caller leaves it out.     *)

\* limit: int = 10
DefaultLimit == 10

Embeddings == {<<>>, <<1>>, <<1, 2>>, <<2, 1>>}
LimitArgs == {<<>>, <<-1>>, <<0>>, <<1>>, <<3>>}
FilterArgs == {<<>>, <<EmptyDict>>, <<<<<<"subject", "math">>>>>>}
ThresholdArgs == {<<>>, <<0>>, <<1>>}

NoQuery ==
    [op |-> None, kind |-> None, embedding |-> <<>>, limit |-> 0,
     filter_metadata |-> EmptyDict, score_threshold |-> <<>>]

\* SearchQuery(embedding=..., limit=..., filter_metadata=..., score_threshold=...):
\* the fields are typed and defaulted, and carry no further constraint.
SearchQuery(embedding, limit, filter_metadata, score_threshold) ==
    [op |-> "SearchQuery", kind |-> "instance", embedding |-> embedding,
     limit |-> IF Len(limit) = 0 THEN DefaultLimit ELSE limit[1],
     filter_metadata |-> IF Len(filter_metadata) = 0 THEN EmptyDict
                         ELSE filter_metadata[1],
     score_threshold |-> score_threshold]

ConstructSearchQuery(embedding, limit, filter_metadata, score_threshold) ==
    /\ searchQuery' = SearchQuery(embedding, limit, filter_metadata, score_threshold)
    /\ UNCHANGED <<strategyVars, registryVars, managerVars, ingestVars, overlapVars,
                   apiVars, ragVars, gatewayVars, toolkitVars, parameterVars, toolVars>>

----------------------------------------------------------------------------
(* agent_manager/agent_manager.py: EducationalAgentManager.  The package   *)
(* agent_manager/ shadows the older module agent_manager.py on import.     *)

MaxAdds == 2
MaxRequests == 1

AgentIds == {"a1", "a2"}

\* What get_agent_capabilities() of an agent gives under "agent_type";
\* None: the capabilities carry no such key.
DeclaredTypes == {"question_generator", "assessment", "tutor", None}

RequestTypes ==
    {"question_generation", "generate_questions", "assessment", "evaluate_answers",
     "tutoring", "explanation", "learning_support", "general", "unknown"}

\* What validate_request of a concrete agent may do: return a truthy or a
\* falsy value, or raise.
ValidateOutcomes == {"truthy", "falsy", "raise"}

\* What process_request of a concrete agent may do.
ProcessOutcomes == {"return", "raise"}

\* str(e) of the exception a concrete agent raises.
AgentFailure == "agent failed"

\* capabilities.get("agent_type", "general")
AgentTypeOf(declared) == IF declared = None THEN "general" ELSE declared

\* EducationalAgentManager.add_agent
add_agent(ags, mapping, agent_id, declared) ==
    [agents |-> DictSet(ags, agent_id, declared),
     agent_mapping |-> DictSet(mapping, AgentTypeOf(declared), agent_id)]

\* next(iter(self.agents.keys()), "")
FirstKey(ags) == IF Len(ags) = 0 THEN "" ELSE ags[1][1]

\* A slip: a recognised type without an agent falls back to the first agent.
find_agent_for_request_fallback(ags, mapping, request_type) ==
    IF request_type \in {"question_generation", "generate_questions"}
    THEN DictGet(mapping, "question_generator", FirstKey(ags))
    ELSE IF request_type \in {"assessment", "evaluate_answers"}
    THEN DictGet(mapping, "assessment", FirstKey(ags))
    ELSE IF request_type \in {"tutoring", "explanation", "learning_support"}
    THEN DictGet(mapping, "tutor", FirstKey(ags))
    ELSE FirstKey(ags)

\* EducationalAgentManager.find_agent_for_request
find_agent_for_request(ags, mapping, request_type) ==
    IF request_type \in {"question_generation", "generate_questions"}
    THEN DictGet(mapping, "question_generator", "")
    ELSE IF request_type \in {"assessment", "evaluate_answers"}
    THEN DictGet(mapping, "assessment", "")
    ELSE IF request_type \in {"tutoring", "explanation", "learning_support"}
    THEN DictGet(mapping, "tutor", "")
    ELSE FirstKey(ags)

\* RequestLog(timestamp, request, status): agent_id and error default to None.
NewLogEntry == [status |-> "processing", agent_id |-> None, error |-> None]

\* EducationalAgentManager.handle_agent_error
handle_agent_error(ags, agent_id, error) ==
    [error_type |-> "Exception", error_message |-> error, agent_id |-> agent_id,
     suggestions |-> <<"try_again", "use_different_agent">>,
     alternative_agents |-> SelectSeq(DictKeys(ags), LAMBDA aid : aid # agent_id)]

\* No AgentError was built.
NoAgentError ==
    [error_type |-> None, error_message |-> None, agent_id |-> None,
     suggestions |-> <<>>, alternative_agents |-> <<>>]

\* The result of one handle_request call: the log after it, the methods of
\* agents it invoked (agent, method, what the method did), whether it returned
\* or let an exception through, the AgentResponse it returned and the
\* AgentError it built on the way.
CallResult(log, invoked, outcome, response, agent_error) ==
    [log |-> log, invoked |-> invoked, outcome |-> outcome, response |-> response,
     agent_error |-> agent_error]

\* self.request_log[-1].<field> = value
SetLast(log, status, agent_id, error) ==
    [log EXCEPT ![Len(log)] = [status |-> status, agent_id |-> agent_id, error |-> error]]

\* A slip: a failed process_request is tried once more.
handle_request_retry(ags, mapping, log, request_type, validate, process) ==
    LET log1 == Append(log, NewLogEntry)
        agent_id == find_agent_for_request(ags, mapping, request_type)
    IN
    IF agent_id = "" \/ ~DictHas(ags, agent_id)
    THEN CallResult(log1, <<>>, "returned",
            [success |-> FALSE, agent_id |-> "system",
             response_data |-> [error |-> "No suitable agent found for this request",
                                available_agents |-> DictKeys(ags)],
             error_message |-> "No suitable agent found"], NoAgentError)
    ELSE IF validate = "raise"
    THEN CallResult(log1, <<<<agent_id, "validate_request", "raise">>>>, "raised", None, NoAgentError)
    ELSE IF validate = "falsy"
    THEN CallResult(log1, <<<<agent_id, "validate_request", "falsy">>>>, "returned",
            [success |-> FALSE, agent_id |-> agent_id,
             response_data |-> [error |-> "Request not valid for this agent",
                                agent_id |-> agent_id,
                                agent_capabilities |-> DictGet(ags, agent_id, None)],
             error_message |-> "Request not valid for this agent"], NoAgentError)
    ELSE IF process = "return"
    THEN CallResult(SetLast(log1, "completed", agent_id, None),
            <<<<agent_id, "validate_request", "truthy">>,
              <<agent_id, "process_request", "return">>>>,
            "returned",
            [success |-> TRUE, agent_id |-> agent_id,
             response_data |-> [result |-> "ok"], error_message |-> None], NoAgentError)
    ELSE LET error_response == handle_agent_error(ags, agent_id, AgentFailure)
         IN  CallResult(SetLast(log1, "failed", None, AgentFailure),
                <<<<agent_id, "validate_request", "truthy">>,
                  <<agent_id, "process_request", "raise">>,
                  <<agent_id, "process_request", "raise">>>>,
                "returned",
                [success |-> FALSE, agent_id |-> agent_id,
                 response_data |-> [error |-> AgentFailure,
                                    suggestions |-> error_response.suggestions],
                 error_message |-> AgentFailure], error_response)

\* A slip: the result of validate_request is not looked at.
handle_request_unchecked(ags, mapping, log, request_type, validate, process) ==
    LET log1 == Append(log, NewLogEntry)
        agent_id == find_agent_for_request(ags, mapping, request_type)
    IN
    IF agent_id = "" \/ ~DictHas(ags, agent_id)
    THEN CallResult(log1, <<>>, "returned",
            [success |-> FALSE, agent_id |-> "system",
             response_data |-> [error |-> "No suitable agent found for this request",
                                available_agents |-> DictKeys(ags)],
             error_message |-> "No suitable agent found"], NoAgentError)
    ELSE IF validate = "raise"
    THEN CallResult(log1, <<<<agent_id, "validate_request", "raise">>>>, "raised", None, NoAgentError)
    ELSE IF process = "return"
    THEN CallResult(SetLast(log1, "completed", agent_id, None),
            <<<<agent_id, "validate_request", validate>>,
              <<agent_id, "process_request", "return">>>>,
            "returned",
            [success |-> TRUE, agent_id |-> agent_id,
             response_data |-> [result |-> "ok"], error_message |-> None], NoAgentError)
    ELSE LET error_response == handle_agent_error(ags, agent_id, AgentFailure)
         IN  CallResult(SetLast(log1, "failed", None, AgentFailure),
                <<<<agent_id, "validate_request", validate>>,
                  <<agent_id, "process_request", "raise">>>>,
                "returned",
                [success |-> FALSE, agent_id |-> agent_id,
                 response_data |-> [error |-> AgentFailure,
                                    suggestions |-> error_response.suggestions],
                 error_message |-> AgentFailure], error_response)

\* EducationalAgentManager.handle_request.  validate and process are what the
\* selected agent's validate_request and process_request do when called.
handle_request(ags, mapping, log, request_type, validate, process) ==
    LET log1 == Append(log, NewLogEntry)
        agent_id == find_agent_for_request(ags, mapping, request_type)
    IN
    IF agent_id = "" \/ ~DictHas(ags, agent_id)
    THEN CallResult(log1, <<>>, "returned",
            [success |-> FALSE, agent_id |-> "system",
             response_data |-> [error |-> "No suitable agent found for this request",
                                available_agents |-> DictKeys(ags)],
             error_message |-> "No suitable agent found"], NoAgentError)
    ELSE IF validate = "raise"
    THEN CallResult(log1, <<<<agent_id, "validate_request", "raise">>>>, "raised", None, NoAgentError)
    ELSE IF validate = "falsy"
    THEN CallResult(log1, <<<<agent_id, "validate_request", "falsy">>>>, "returned",
            [success |-> FALSE, agent_id |-> agent_id,
             response_data |-> [error |-> "Request not valid for this agent",
                                agent_id |-> agent_id,
                                agent_capabilities |-> DictGet(ags, agent_id, None)],
             error_message |-> "Request not valid for this agent"], NoAgentError)
    ELSE IF process = "return"
    THEN CallResult(SetLast(log1, "completed", agent_id, None),
            <<<<agent_id, "validate_request", "truthy">>,
              <<agent_id, "process_request", "return">>>>,
            "returned",
            [success |-> TRUE, agent_id |-> agent_id,
             response_data |-> [result |-> "ok"], error_message |-> None], NoAgentError)
    ELSE LET error_response == handle_agent_error(ags, agent_id, AgentFailure)
         IN  CallResult(SetLast(log1, "failed", None, AgentFailure),
                <<<<agent_id, "validate_request", "truthy">>,
                  <<agent_id, "process_request", "raise">>>>,
                "returned",
                [success |-> FALSE, agent_id |-> agent_id,
                 response_data |-> [error |-> AgentFailure,
                                    suggestions |-> error_response.suggestions],
                 error_message |-> AgentFailure], error_response)

\* [r for r in self.request_log if r.agent_id == agent_id]
AgentRequests(log, agent_id) == SelectSeq(log, LAMBDA r : r.agent_id = agent_id)

\* AgentStatus of one agent, as check_agent_status builds it.  success_rate
\* is the fraction <<completed, requests>>, <<0, 1>> for 0.0.
AgentStatusOf(log, agent_id) ==
    LET agent_requests == AgentRequests(log, agent_id)
        completed == SelectSeq(agent_requests, LAMBDA r : r.status = "completed")
        failed == SelectSeq(agent_requests, LAMBDA r : r.status = "failed")
    IN  [total_requests |-> Len(agent_requests),
         completed |-> Len(completed),
         failed |-> Len(failed),
         success_rate |-> IF Len(agent_requests) > 0
                          THEN <<Len(completed), Len(agent_requests)>>
                          ELSE <<0, 1>>,
         last_request |-> IF Len(agent_requests) > 0
                          THEN <<agent_requests[Len(agent_requests)]>>
                          ELSE <<>>]

\* success_rate > ACTIVE_AGENT_SUCCESS_RATE_THRESHOLD, the threshold being 0.5
IsActive(status) ==
    status.total_requests > 0 /\ 2 * status.success_rate[1] > status.success_rate[2]

\* EducationalAgentManager.check_agent_status
check_agent_status(ags, log) ==
    LET status_data == [i \in 1..Len(ags) |-> <<ags[i][1], AgentStatusOf(log, ags[i][1])>>]
    IN  [status_data |-> status_data,
         total_agents |-> Len(ags),
         active_agents |-> Cardinality({i \in 1..Len(ags) : IsActive(status_data[i][2])}),
         total_requests |-> Len(log),
         system_uptime |-> "System running"]

NoCall ==
    [op |-> None, request_type |-> None, invoked |-> <<>>, outcome |-> None,
     response |-> None, agent_error |-> NoAgentError]

AddAgent(agent_id, declared) ==
    /\ Len(addHistory) < MaxAdds
    /\ LET r == add_agent(agents, agent_mapping, agent_id, declared)
       IN  /\ agents' = r.agents
           /\ agent_mapping' = r.agent_mapping
    /\ addHistory' = Append(addHistory, [agent_id |-> agent_id, declared |-> declared])
    /\ lastCall' = NoCall
    /\ UNCHANGED <<request_log, callHistory, strategyVars, registryVars, ingestVars,
                   overlapVars, queryVars, apiVars, ragVars, gatewayVars, toolkitVars,
                   parameterVars, toolVars>>

HandleRequest(request_type, validate, process) ==
    /\ Len(request_log) < MaxRequests
    /\ LET r == handle_request(agents, agent_mapping, request_log, request_type,
                               validate, process)
       IN  /\ request_log' = r.log
           /\ lastCall' = [op |-> "handle_request", request_type |-> request_type,
                           invoked |-> r.invoked, outcome |-> r.outcome,
                           response |-> r.response, agent_error |-> r.agent_error]
           /\ callHistory' = Append(callHistory,
                  [entry |-> Len(request_log) + 1, invoked |-> r.invoked,
                   outcome |-> r.outcome])
    /\ UNCHANGED <<agents, agent_mapping, addHistory, strategyVars, registryVars,
                   ingestVars, overlapVars, queryVars, apiVars, ragVars, gatewayVars,
                   toolkitVars, parameterVars, toolVars>>

CheckAgentStatus ==
    /\ lastCall' = [op |-> "check_agent_status", request_type |-> None,
                    invoked |-> <<>>, outcome |-> "returned",
                    response |-> check_agent_status(agents, request_log),
                    agent_error |-> NoAgentError]
    /\ UNCHANGED <<agents, agent_mapping, request_log, addHistory, callHistory,
                   strategyVars, registryVars, ingestVars, overlapVars, queryVars,
                   apiVars, ragVars, gatewayVars, toolkitVars, parameterVars, toolVars>>

----------------------------------------------------------------------------
(* handle_request statement by statement, for calls that overlap: two      *)
(* threads in the same manager, or a process_request that calls            *)
(* handle_request again before it returns.  Each step is a stretch of the  *)
(* method between two points where another call can run.                   *)

MaxCalls == 2

\* The request types and agents the overlapping calls are tried with.
OverlapRequestTypes == {"general", "tutoring"}
OverlapDeclaredTypes == {None, "tutor"}

\* self.request_log[-1].status = status
SetLastStatus(log, status) == [log EXCEPT ![Len(log)].status = status]

\* self.request_log[-1].agent_id = agent_id
SetLastAgentId(log, agent_id) == [log EXCEPT ![Len(log)].agent_id = agent_id]

\* self.request_log[-1].error = str(e)
SetLastError(log, error) == [log EXCEPT ![Len(log)].error = error]

\* Lines 173-198: the entry is appended and the agent looked up; without an
\* agent the call returns here.
BeginRequest(request_type) ==
    /\ Len(active) < MaxCalls
    /\ request_log' = Append(request_log, NewLogEntry)
    /\ LET agent_id == find_agent_for_request(agents, agent_mapping, request_type)
       IN  active' = Append(active,
              [pc |-> IF agent_id = "" \/ ~DictHas(agents, agent_id)
                      THEN "done" ELSE "validate",
               entry |-> Len(request_log) + 1,
               agent_id |-> agent_id,
               result |-> None])
    /\ UNCHANGED <<agents, agent_mapping, addHistory, lastCall, callHistory, writes,
                   strategyVars, registryVars, ingestVars, queryVars, apiVars, ragVars,
                   gatewayVars, toolkitVars, parameterVars, toolVars>>

\* Lines 200-212: agent.validate_request(request.payload)
ValidateRequest(c, validate) ==
    /\ active[c].pc = "validate"
    /\ active' = [active EXCEPT ![c].pc =
                    CASE validate = "truthy" -> "process"
                      [] validate = "falsy" -> "done"
                      [] OTHER -> "raised"]
    /\ UNCHANGED <<agents, agent_mapping, request_log, addHistory, lastCall,
                   callHistory, writes, strategyVars, registryVars, ingestVars,
                   queryVars, apiVars, ragVars, gatewayVars, toolkitVars,
                   parameterVars, toolVars>>

\* Line 216: agent.process_request(request.payload) returns or raises.
ProcessRequest(c, process) ==
    /\ active[c].pc = "process"
    /\ active' = [active EXCEPT ![c].pc = "set_status",
                              ![c].result = IF process = "return" THEN "completed"
                                            ELSE "failed"]
    /\ UNCHANGED <<agents, agent_mapping, request_log, addHistory, lastCall,
                   callHistory, writes, strategyVars, registryVars, ingestVars,
                   queryVars, apiVars, ragVars, gatewayVars, toolkitVars,
                   parameterVars, toolVars>>

\* Lines 220 and 235: the status of the call goes to the last entry.
WriteStatus(c) ==
    /\ active[c].pc = "set_status"
    /\ request_log' = SetLastStatus(request_log, active[c].result)
    /\ writes' = writes \cup {[call |-> c, entry |-> Len(request_log), field |-> "status"]}
    /\ active' = [active EXCEPT ![c].pc = "set_second"]
    /\ UNCHANGED <<agents, agent_mapping, addHistory, lastCall, callHistory,
                   strategyVars, registryVars, ingestVars, queryVars, apiVars, ragVars,
                   gatewayVars, toolkitVars, parameterVars, toolVars>>

\* Lines 221 and 236: agent_id after a success, error after a failure, go to
\* the last entry; the call then returns.
WriteAgentOrError(c) ==
    /\ active[c].pc = "set_second"
    /\ IF active[c].result = "completed"
       THEN /\ request_log' = SetLastAgentId(request_log, active[c].agent_id)
            /\ writes' = writes \cup
                  {[call |-> c, entry |-> Len(request_log), field |-> "agent_id"]}
       ELSE /\ request_log' = SetLastError(request_log, AgentFailure)
            /\ writes' = writes \cup
                  {[call |-> c, entry |-> Len(request_log), field |-> "error"]}
    /\ active' = [active EXCEPT ![c].pc = "done"]
    /\ UNCHANGED <<agents, agent_mapping, addHistory, lastCall, callHistory,
                   strategyVars, registryVars, ingestVars, queryVars, apiVars, ragVars,
                   gatewayVars, toolkitVars, parameterVars, toolVars>>

----------------------------------------------------------------------------
(* db/service.py and rag/retrieval.py: the persistence gateway and         *)
(* RAGSystem.extract_document_to_database                                  *)

MaxIngestions == 2
MaxKP == 1

\* How many ability targets, and how many common mistakes, the strategy
\* returns for one knowledge point.
RelatedCounts == {0, 1}

EmptyDb ==
    [textbooks |-> <<>>, knowledge_points |-> {}, ability_targets |-> {},
     common_mistakes |-> {}]

\* session.add(row) of DatabaseService.create.  A textbook gets the next id.
Insert(d, table, row) ==
    CASE table = "textbooks" -> [d EXCEPT !.textbooks = Append(@, row)]
      [] table = "knowledge_points" -> [d EXCEPT !.knowledge_points = @ \cup {row}]
      [] table = "ability_targets" -> [d EXCEPT !.ability_targets = @ \cup {row}]
      [] table = "common_mistakes" -> [d EXCEPT !.common_mistakes = @ \cup {row}]

\* DatabaseService.create: one session, add, commit; on a database error
\* (fails) the session is rolled back and the error raised again.  The
\* statements of the session, one by one, are modelled by WriteOperation.
create(d, table, row, fails) ==
    IF fails THEN [db |-> d, raised |-> TRUE]
    ELSE [db |-> Insert(d, table, row), raised |-> FALSE]

\* DatabaseService.update_textbook_extraction_status
update_textbook_extraction_status(d, textbook_id, status, fails) ==
    IF fails THEN [db |-> d, raised |-> TRUE]
    ELSE [db |-> [d EXCEPT !.textbooks =
                    [i \in 1..Len(@) |->
                        IF i = textbook_id
                        THEN [extraction_status |-> status,
                              processed_at |-> IF status = "completed" THEN TRUE
                                               ELSE @[i].processed_at]
                        ELSE @[i]]],
          raised |-> FALSE]

\* What the extraction strategy of one ingestion returns: kps knowledge
\* points, and for knowledge point i at[i] ability targets and cm[i] common
\* mistakes.
Plans ==
    UNION {[kps : {n}, at : [1..n -> RelatedCounts], cm : [1..n -> RelatedCounts]] :
              n \in 0..MaxKP}

\* The calls of extract_document_to_database that may raise, in program
\* order, for a textbook that gets the id tb: the document processor, each
\* strategy call and each store call.
StrategyCall(method) == [op |-> "strategy", table |-> method, row |-> None]
StoreCall(table, row) == [op |-> "create", table |-> table, row |-> row]

RECURSIVE KpCalls(_, _, _)
KpCalls(plan, tb, i) ==
    IF i > plan.kps THEN <<>>
    ELSE <<StoreCall("knowledge_points", [textbook |-> tb, kp |-> i])>>
         \o <<StrategyCall("extract_ability_targets")>>
         \o [j \in 1..plan.at[i] |->
                StoreCall("ability_targets", [textbook |-> tb, kp |-> i, n |-> j])]
         \o <<StrategyCall("extract_common_mistakes")>>
         \o [j \in 1..plan.cm[i] |->
                StoreCall("common_mistakes", [textbook |-> tb, kp |-> i, n |-> j])]
         \o KpCalls(plan, tb, i + 1)

\* A slip: the status is set to "completed" right after the knowledge points
\* were extracted, before any of them is stored.
Calls_completed_first(plan, tb) ==
    <<[op |-> "process", table |-> None, row |-> None]>>
    \o <<StoreCall("textbooks", [extraction_status |-> "processing",
                                 processed_at |-> FALSE])>>
    \o <<StrategyCall("extract_knowledge_points")>>
    \o <<[op |-> "update", table |-> "textbooks", row |-> tb]>>
    \o KpCalls(plan, tb, 1)

Calls(plan, tb) ==
    <<[op |-> "process", table |-> None, row |-> None]>>
    \o <<StoreCall("textbooks", [extraction_status |-> "processing",
                                 processed_at |-> FALSE])>>
    \o <<StrategyCall("extract_knowledge_points")>>
    \o KpCalls(plan, tb, 1)
    \o <<[op |-> "update", table |-> "textbooks", row |-> tb]>>

\* The exception a failing call raises.
ExceptionOf(call) ==
    CASE call.op = "process" -> "DocumentError"
      [] call.op = "strategy" -> "NotImplementedError"
      [] OTHER -> "SQLAlchemyError"

\* One call of the ingestion against the store.
Perform(d, call, fails) ==
    CASE call.op = "create" -> create(d, call.table, call.row, fails)
      [] call.op = "update" ->
            update_textbook_extraction_status(d, call.row, "completed", fails)
      [] OTHER -> [db |-> d, raised |-> fails]

RECURSIVE Run(_, _, _, _)
\* The calls from the k-th on, the failing-th of which raises (0: none).
Run(calls, d, k, failing) ==
    IF k > Len(calls) THEN [db |-> d, outcome |-> "returned", exc |-> None, at |-> 0]
    ELSE LET r == Perform(d, calls[k], k = failing)
         IN  IF r.raised
             THEN [db |-> r.db, outcome |-> "raised", exc |-> ExceptionOf(calls[k]),
                   at |-> k]
             ELSE Run(calls, r.db, k + 1, failing)

\* RAGSystem.extract_document_to_database
extract_document_to_database(d, plan, failing) ==
    LET tb == Len(d.textbooks) + 1
        r == Run(Calls(plan, tb), d, 1, failing)
    IN  [db |-> r.db, outcome |-> r.outcome, exc |-> r.exc,
         textbook |-> IF Len(r.db.textbooks) >= tb THEN tb ELSE 0]

ExtractDocumentToDatabase(plan, failing) ==
    /\ Len(ingestions) < MaxIngestions
    /\ LET r == extract_document_to_database(db, plan, failing)
       IN  /\ db' = r.db
           /\ ingestions' = Append(ingestions,
                  [textbook |-> r.textbook, outcome |-> r.outcome,
                   extracted |-> IF r.outcome = "returned" THEN <<plan>> ELSE <<>>])
    /\ UNCHANGED <<strategyVars, registryVars, managerVars, overlapVars, queryVars,
                   apiVars, ragVars, gatewayVars, toolkitVars, parameterVars, toolVars>>

----------------------------------------------------------------------------
(* api/api.py and api/endpoints/: the FastAPI application.  The package    *)
(* api/endpoints/ shadows the older module api/endpoints.py on import.     *)

\* str.startswith
StartsWith(s, prefix) ==
    Len(prefix) <= Len(s) /\ SubSeq(s, 1, Len(prefix)) = prefix

RECURSIVE SegmentsFrom(_, _, _)
\* The pieces of s from position i on, cut at every "/"; cur is the piece
\* being read.
SegmentsFrom(s, i, cur) ==
    IF i > Len(s) THEN <<cur>>
    ELSE IF SubSeq(s, i, i) = "/"
    THEN <<cur>> \o SegmentsFrom(s, i + 1, "")
    ELSE SegmentsFrom(s, i + 1, cur \o SubSeq(s, i, i))

\* The segments of a path that starts with "/".
Segments(path) == SegmentsFrom(path, 2, "")

\* A path parameter, "{name}".
IsParam(segment) ==
    /\ Len(segment) >= 2
    /\ SubSeq(segment, 1, 1) = "{"
    /\ SubSeq(segment, Len(segment), Len(segment)) = "}"

\* The path regex a route compiles from its path, as segments: a literal
\* segment matches itself, a parameter matches any non-empty segment.
PathMatches(route_segments, path_segments) ==
    /\ Len(route_segments) = Len(path_segments)
    /\ \A i \in 1..Len(route_segments) :
          IF IsParam(route_segments[i]) THEN path_segments[i] # ""
          ELSE route_segments[i] = path_segments[i]

\* One route.  segments: the compiled path; input: the endpoint declares a
\* body or query parameters that the request must carry; returns: what the
\* endpoint answers with.
Route(path, methods, endpoint, input, returns) ==
    [path |-> path, segments |-> Segments(path), methods |-> methods,
     endpoint |-> endpoint, input |-> input, returns |-> returns]

\* The routes FastAPI(docs_url="/docs", redoc_url="/redoc") sets up itself.
DocRoutes ==
    <<Route("/openapi.json", {"GET", "HEAD"}, "openapi", FALSE, "openapi schema"),
      Route("/docs", {"GET", "HEAD"}, "swagger_ui_html", FALSE, "swagger ui"),
      Route("/docs/oauth2-redirect", {"GET", "HEAD"}, "swagger_ui_redirect", FALSE,
            "swagger ui redirect"),
      Route("/redoc", {"GET", "HEAD"}, "redoc_html", FALSE, "redoc")>>

analytics_router ==
    <<Route("/analytics/performance", {"POST"}, "get_performance_analytics", TRUE,
            "PerformanceAnalyticsResponse"),
      Route("/analytics/mistakes", {"POST"}, "analyze_mistakes", TRUE,
            "MistakeAnalysisResponse"),
      Route("/analytics/class/{class_id}", {"GET"}, "get_class_analytics", FALSE,
            "class analytics"),
      Route("/health", {"GET"}, "health_check", FALSE, "HealthCheckResponse"),
      Route("/batch/questions/generate", {"POST"}, "batch_generate_questions", TRUE,
            "BatchOperationResponse"),
      Route("/error", {"GET"}, "trigger_error", FALSE, "HTTPException")>>

assessment_router ==
    <<Route("/assessment/evaluate", {"POST"}, "evaluate_answers", TRUE,
            "AssessmentResponse"),
      Route("/feedback/provide", {"POST"}, "provide_feedback", TRUE,
            "FeedbackResponse")>>

exercises_router ==
    <<Route("/exercises", {"POST"}, "create_exercise", TRUE, "ExerciseResponse"),
      Route("/practice/session", {"POST"}, "start_practice_session", TRUE,
            "PracticeSessionResponse"),
      Route("/exercises/{exercise_id}", {"GET"}, "get_exercise", FALSE,
            "ExerciseResponse")>>

knowledge_router ==
    <<Route("/textbook/upload", {"POST"}, "upload_textbook", FALSE,
            "KnowledgeExtractionResponse"),
      Route("/knowledge/extraction/{extraction_id}", {"GET"}, "get_extraction_status",
            FALSE, "KnowledgeExtractionResponse"),
      Route("/knowledge/graph/{textbook_id}", {"GET"}, "get_knowledge_graph", FALSE,
            "KnowledgeGraphResponse")>>

questions_router ==
    <<Route("/questions/generate", {"POST"}, "generate_questions", TRUE,
            "QuestionGenerationResponse"),
      Route("/questions/difficulty/control", {"POST"}, "control_question_difficulty",
            TRUE, "DifficultyControlResponse"),
      Route("/questions/distractors/generate", {"POST"}, "generate_distractors", TRUE,
            "distractors")>>

\* api/endpoints/__init__.py
api_routers ==
    <<analytics_router, assessment_router, exercises_router, knowledge_router,
      questions_router>>

\* api.include_router(router, prefix=...): every route of the router, in
\* order, under the prefix.
include_router(rts, router, prefix) ==
    rts \o [i \in 1..Len(router) |->
               Route(prefix \o router[i].path, router[i].methods, router[i].endpoint,
                     router[i].input, router[i].returns)]

\* The application is complete when the module body has run to its end:
\* the routers included, then "/" and "/health" added.
Imported == included = Len(api_routers) + 2

NoResponse ==
    [method |-> None, path |-> None, input |-> None, status |-> 0, body |-> None,
     endpoint |-> None, client |-> None]

HttpMethods == {"GET", "POST", "HEAD"}

RequestPaths ==
    {"/", "/health", "/hello", "/hello/", "/docs", "/redoc", "/openapi.json",
     "/users/register", "/api/v1/hello", "/api/v1/health", "/api/v1/error",
     "/api/v1/questions/generate", "/api/v1/questions/difficulty/control",
     "/api/v1/questions/distractors/generate", "/api/v1/assessment/evaluate",
     "/api/v1/feedback/provide", "/api/v1/textbook/upload",
     "/api/v1/users/register", "/api/v1/users/login", "/api/v1/users/u1",
     "/api/v1/exercises", "/api/v1/exercises/", "/api/v1/exercises/e1",
     "/api/v1/practice/session", "/api/v1/analytics/performance",
     "/api/v1/analytics/mistakes", "/api/v1/analytics/class/c1",
     "/api/v1/knowledge/extraction/x1", "/api/v1/knowledge/graph/t1",
     "/api/v1/batch/questions/generate"}

\* Whether the request carries what the endpoint's parameters need.
RequestInputs == {"valid", "invalid"}

\* What the endpoint of a matched route answers.
Answer(route, input) ==
    IF route.input /\ input = "invalid"
    THEN [status |-> 422, body |-> "validation error", endpoint |-> route.endpoint]
    ELSE IF route.endpoint = "trigger_error"
    THEN [status |-> 400, body |-> "Sample error for testing",
          endpoint |-> route.endpoint]
    ELSE [status |-> 200, body |-> route.returns, endpoint |-> route.endpoint]

\* The other spelling of a path: with or without the slash at its end.
RedirectPath(path) ==
    IF SubSeq(path, Len(path), Len(path)) = "/"
    THEN SubSeq(path, 1, Len(path) - 1)
    ELSE path \o "/"

\* The router of the application: the first route that matches path and
\* method answers; a route that matches the path alone refuses the method;
\* a path that matches with the other slash spelling is redirected; any
\* other request is not found.
dispatch(rts, method, path, input) ==
    LET ps == Segments(path)
        partial == {i \in 1..Len(rts) : PathMatches(rts[i].segments, ps)}
        full == {i \in partial : method \in rts[i].methods}
    IN  IF full # {}
        THEN Answer(rts[CHOOSE i \in full : \A j \in full : i <= j], input)
        ELSE IF partial # {}
        THEN [status |-> 405, body |-> "Method Not Allowed", endpoint |-> None]
        ELSE IF path # "/"
                /\ LET alt == Segments(RedirectPath(path))
                   IN  \E i \in 1..Len(rts) : PathMatches(rts[i].segments, alt)
        THEN [status |-> 307, body |-> RedirectPath(path), endpoint |-> None]
        ELSE [status |-> 404, body |-> "Not Found", endpoint |-> None]

\* for router in api_routers: api.include_router(router, prefix="/api/v1", ...)
IncludeRouter ==
    /\ included < Len(api_routers)
    /\ routes' = include_router(routes, api_routers[included + 1], "/api/v1")
    /\ included' = included + 1
    /\ UNCHANGED <<httpResponse, strategyVars, registryVars, managerVars, ingestVars,
                   overlapVars, queryVars, ragVars, gatewayVars, toolkitVars,
                   parameterVars, toolVars>>

\* @api.get("/", include_in_schema=False)
AddRootRoute ==
    /\ included = Len(api_routers)
    /\ routes' = Append(routes, Route("/", {"GET"}, "root", FALSE,
                                      "message, version, docs"))
    /\ included' = included + 1
    /\ UNCHANGED <<httpResponse, strategyVars, registryVars, managerVars, ingestVars,
                   overlapVars, queryVars, ragVars, gatewayVars, toolkitVars,
                   parameterVars, toolVars>>

\* @api.get("/health", include_in_schema=False)
AddHealthRoute ==
    /\ included = Len(api_routers) + 1
    /\ routes' = Append(routes, Route("/health", {"GET"}, "health_check", FALSE,
                                      "status healthy, service eduagent-api"))
    /\ included' = included + 1
    /\ UNCHANGED <<httpResponse, strategyVars, registryVars, managerVars, ingestVars,
                   overlapVars, queryVars, ragVars, gatewayVars, toolkitVars,
                   parameterVars, toolVars>>

\* One HTTP request to the imported application.
HttpRequest(method, path, input) ==
    /\ Imported
    /\ LET r == dispatch(routes, method, path, input)
       IN  httpResponse' = [method |-> method, path |-> path, input |-> input,
                            status |-> r.status, body |-> r.body,
                            endpoint |-> r.endpoint, client |-> None]
    /\ UNCHANGED <<routes, included, strategyVars, registryVars, managerVars,
                   ingestVars, overlapVars, queryVars, ragVars, gatewayVars,
                   toolkitVars, parameterVars, toolVars>>

----------------------------------------------------------------------------
(* defs.py and ui/api_client.py: the paths of APIDefs and the requests of  *)
(* the UI's EduAgentAPIClient                                              *)

BASE_PATH == "/api/v1"
TEXTBOOK_UPLOAD == BASE_PATH \o "/textbook/upload"
EXTRACTION_STATUS == BASE_PATH \o "/knowledge/extraction/{extraction_id}"
GENERATE_QUESTIONS == BASE_PATH \o "/questions/generate"
CONTROL_DIFFICULTY == BASE_PATH \o "/questions/difficulty/control"
GENERATE_DISTRACTORS == BASE_PATH \o "/questions/distractors/generate"
START_PRACTICE == BASE_PATH \o "/practice/session"
PERFORMANCE_ANALYTICS == BASE_PATH \o "/analytics/performance"
MISTAKE_ANALYSIS == BASE_PATH \o "/analytics/mistakes"
CLASS_ANALYTICS == BASE_PATH \o "/analytics/class/{class_id}"
HEALTH_CHECK == BASE_PATH \o "/health"

\* template.format(<field>=value) for a template with one replacement field.
Format(template, value) ==
    LET open == CHOOSE i \in 1..Len(template) : SubSeq(template, i, i) = "{"
        close == CHOOSE i \in 1..Len(template) : SubSeq(template, i, i) = "}"
    IN  SubSeq(template, 1, open - 1) \o value
            \o SubSeq(template, close + 1, Len(template))

ClientMethods ==
    {"health_check", "upload_textbook", "get_extraction_status", "generate_questions",
     "control_question_difficulty", "generate_distractors", "start_practice_session",
     "get_performance_analytics", "get_class_analytics", "analyze_mistakes"}

\* The values passed as extraction_id or class_id.
Identifiers == {"c1", "x1"}

\* The endpoint and the method a client method hands to _make_request; id is
\* the extraction_id or class_id argument of the two methods that take one.
ClientRequest(client_method, id) ==
    CASE client_method = "health_check" -> [method |-> "GET", path |-> HEALTH_CHECK]
      [] client_method = "upload_textbook" ->
            [method |-> "POST", path |-> TEXTBOOK_UPLOAD]
      [] client_method = "get_extraction_status" ->
            [method |-> "GET", path |-> Format(EXTRACTION_STATUS, id)]
      [] client_method = "generate_questions" ->
            [method |-> "POST", path |-> GENERATE_QUESTIONS]
      [] client_method = "control_question_difficulty" ->
            [method |-> "POST", path |-> CONTROL_DIFFICULTY]
      [] client_method = "generate_distractors" ->
            [method |-> "POST", path |-> GENERATE_DISTRACTORS]
      [] client_method = "start_practice_session" ->
            [method |-> "POST", path |-> START_PRACTICE]
      [] client_method = "get_performance_analytics" ->
            [method |-> "POST", path |-> PERFORMANCE_ANALYTICS]
      [] client_method = "get_class_analytics" ->
            [method |-> "POST", path |-> Format(CLASS_ANALYTICS, id)]
      [] client_method = "analyze_mistakes" ->
            [method |-> "POST", path |-> MISTAKE_ANALYSIS]

\* One method of EduAgentAPIClient: _make_request sends the request to the
\* application; input: whether the JSON body suits the endpoint.
ClientCall(client_method, id, input) ==
    /\ Imported
    /\ LET request == ClientRequest(client_method, id)
           r == dispatch(routes, request.method, request.path, input)
       IN  httpResponse' = [method |-> request.method, path |-> request.path,
                            input |-> input, status |-> r.status, body |-> r.body,
                            endpoint |-> r.endpoint, client |-> client_method]
    /\ UNCHANGED <<routes, included, strategyVars, registryVars, managerVars,
                   ingestVars, overlapVars, queryVars, ragVars, gatewayVars,
                   toolkitVars, parameterVars, toolVars>>

----------------------------------------------------------------------------
(* RAGSystem's strategy registry and RAGTool's strategy switches:          *)
(* rag/retrieval.py                                                        *)

\* The objects a caller can hand to register_strategy (its parameter is typed
\* `object`): instances of a KnowledgeExtractionStrategy subclass, of a
\* RetrievalStrategy subclass, of a class that derives from both, and of neither.
StrategyObjects == {"extraction0", "extraction1", "retrieval0", "retrieval1",
                    "both", "other"}

StrategyNames == {"glm", "semantic"}

\* The strategy base classes an object is an instance of.
BasesOf(strategy) ==
    CASE strategy \in {"extraction0", "extraction1"} -> {"KnowledgeExtractionStrategy"}
      [] strategy \in {"retrieval0", "retrieval1"} -> {"RetrievalStrategy"}
      [] strategy = "both" -> {"KnowledgeExtractionStrategy", "RetrievalStrategy"}
      [] OTHER -> {}

isinstance(strategy, class) == class \in BasesOf(strategy)

\* RAGSystem.__init__: the two strategies the constructor was given and an empty
\* registry.
RAGSystem(extraction_strategy, retrieval_strategy) ==
    [extraction_strategy |-> extraction_strategy,
     retrieval_strategy |-> retrieval_strategy,
     available_strategies |-> EmptyDict]

set_extraction_strategy(rag, strategy) == [rag EXCEPT !.extraction_strategy = strategy]

set_retrieval_strategy(rag, strategy) == [rag EXCEPT !.retrieval_strategy = strategy]

register_strategy(rag, strategy_name, strategy) ==
    [rag EXCEPT !.available_strategies = DictSet(@, strategy_name, strategy)]

\* A slip: the switch without the isinstance test.
switch_extraction_strategy_untyped(rag, strategy_name) ==
    IF DictHas(rag.available_strategies, strategy_name)
    THEN [rag |-> set_extraction_strategy(
                      rag, DictGet(rag.available_strategies, strategy_name, None)),
          returned |-> TRUE]
    ELSE [rag |-> rag, returned |-> FALSE]

\* RAGTool.switch_extraction_strategy: the RAG system after the call and the
\* value returned.
switch_extraction_strategy(rag, strategy_name) ==
    IF DictHas(rag.available_strategies, strategy_name)
    THEN LET strategy == DictGet(rag.available_strategies, strategy_name, None)
         IN  IF isinstance(strategy, "KnowledgeExtractionStrategy")
             THEN [rag |-> set_extraction_strategy(rag, strategy), returned |-> TRUE]
             ELSE [rag |-> rag, returned |-> FALSE]
    ELSE [rag |-> rag, returned |-> FALSE]

\* RAGTool.switch_retrieval_strategy.
switch_retrieval_strategy(rag, strategy_name) ==
    IF DictHas(rag.available_strategies, strategy_name)
    THEN LET strategy == DictGet(rag.available_strategies, strategy_name, None)
         IN  IF isinstance(strategy, "RetrievalStrategy")
             THEN [rag |-> set_retrieval_strategy(rag, strategy), returned |-> TRUE]
             ELSE [rag |-> rag, returned |-> FALSE]
    ELSE [rag |-> rag, returned |-> FALSE]

InitialRagSystem == RAGSystem("extraction0", "retrieval0")

NoRagCall ==
    [op |-> "none", strategy_name |-> None, returned |-> FALSE,
     before |-> InitialRagSystem]

\* rag_system.register_strategy(strategy_name, strategy)
RegisterStrategy(strategy_name, strategy) ==
    /\ rag_system' = register_strategy(rag_system, strategy_name, strategy)
    /\ ragCall' = [op |-> "register_strategy", strategy_name |-> strategy_name,
                   returned |-> FALSE, before |-> rag_system]
    /\ UNCHANGED <<strategyVars, registryVars, managerVars, ingestVars, overlapVars,
                   queryVars, apiVars, gatewayVars, toolkitVars, parameterVars,
                   toolVars>>

\* rag_tool.switch_extraction_strategy(strategy_name)
SwitchExtractionStrategy(strategy_name) ==
    /\ LET r == switch_extraction_strategy(rag_system, strategy_name)
       IN  /\ rag_system' = r.rag
           /\ ragCall' = [op |-> "switch_extraction_strategy",
                          strategy_name |-> strategy_name,
                          returned |-> r.returned, before |-> rag_system]
    /\ UNCHANGED <<strategyVars, registryVars, managerVars, ingestVars, overlapVars,
                   queryVars, apiVars, gatewayVars, toolkitVars, parameterVars,
                   toolVars>>

\* rag_tool.switch_retrieval_strategy(strategy_name)
SwitchRetrievalStrategy(strategy_name) ==
    /\ LET r == switch_retrieval_strategy(rag_system, strategy_name)
       IN  /\ rag_system' = r.rag
           /\ ragCall' = [op |-> "switch_retrieval_strategy",
                          strategy_name |-> strategy_name,
                          returned |-> r.returned, before |-> rag_system]
    /\ UNCHANGED <<strategyVars, registryVars, managerVars, ingestVars, overlapVars,
                   queryVars, apiVars, gatewayVars, toolkitVars, parameterVars,
                   toolVars>>

----------------------------------------------------------------------------
(* db/service.py: the write operations of DatabaseService, statement by    *)
(* statement on their session                                              *)

\* Rows of the store: a textbook, two questions, an exercise and the rows of
\* exercise_question that link the exercise to a question.
RowIds == {"textbook", "question1", "question2", "exercise", "link1", "link2"}
QuestionIds == {"question1", "question2"}
LinkOf(question_id) == IF question_id = "question1" THEN "link1" ELSE "link2"

\* What the store holds for a row id: nothing, the row as inserted, or the row
\* after an update.
EmptyStore == [id \in RowIds |-> "absent"]

\* session_factory(): a new session on the store.  view is the store as the
\* session's transaction sees it, attached the instances that belong to the
\* session, broken whether the pending changes cannot be written (a duplicate
\* key, a row that is gone).
NewSession(store) ==
    [stored |-> store, view |-> store, attached |-> {}, broken |-> FALSE]

\* The statements of the write operations.
SessionAdd(row) == [stmt |-> "add", row |-> row]
SessionMerge(row) == [stmt |-> "merge", row |-> row]
SessionDelete(row) == [stmt |-> "delete", row |-> row]
QueryUpdate(row) == [stmt |-> "update", row |-> row]
ExecuteInsert(question_id) == [stmt |-> "execute", row |-> question_id]
SessionFlush == [stmt |-> "flush", row |-> None]
SessionCommit == [stmt |-> "commit", row |-> None]
SessionRefresh(row) == [stmt |-> "refresh", row |-> row]

\* The statements inside the try block of each write operation, in program
\* order; args is the sequence of row ids the caller passed.
Statements(op, args) ==
    CASE op = "create" ->
            <<SessionAdd(args[1]), SessionCommit, SessionRefresh(args[1])>>
      [] op = "update" ->
            <<SessionMerge(args[1]), SessionCommit, SessionRefresh(args[1])>>
      [] op = "delete" -> <<SessionDelete(args[1]), SessionCommit>>
      [] op = "update_textbook_extraction_status" ->
            <<QueryUpdate(args[1]), SessionCommit>>
      [] op = "create_exercise_with_questions" ->
            <<SessionAdd("exercise"), SessionFlush>>
            \o [i \in 1..Len(args) |-> ExecuteInsert(args[i])]
            \o <<SessionCommit, SessionRefresh("exercise")>>
      [] op = "batch_create_questions" ->
            [i \in 1..Len(args) |-> SessionAdd(args[i])]
            \o <<SessionCommit>>
            \o [i \in 1..Len(args) |-> SessionRefresh(args[i])]

\* The statements that send SQL to the database, and so can raise a
\* SQLAlchemyError for a reason outside the program (a lost connection).
TalksToDatabase(statement) ==
    statement.stmt \in {"merge", "update", "execute", "flush", "commit", "refresh"}

\* One statement on a session: the session after it and whether it raised a
\* SQLAlchemyError.  fails: the database fails under this statement.
Execute(s, statement, fails) ==
    LET row == statement.row
        ok(t) == [session |-> t, raised |-> FALSE]
        error(t) == [session |-> t, raised |-> TRUE]
    IN  CASE fails -> error(s)
          [] statement.stmt = "add" ->
                ok([s EXCEPT !.view[row] = "new", !.attached = @ \cup {row},
                             !.broken = @ \/ s.view[row] # "absent"])
          [] statement.stmt = "merge" ->
                \* the state is copied to the session's own instance; the instance
                \* passed in stays outside the session
                ok([s EXCEPT !.view[row] = IF s.view[row] = "absent" THEN "new"
                                           ELSE "changed"])
          [] statement.stmt = "delete" ->
                ok([s EXCEPT !.view[row] = "absent",
                             !.broken = @ \/ s.view[row] = "absent"])
          [] statement.stmt = "update" ->
                ok([s EXCEPT !.view[row] = IF s.view[row] = "absent" THEN "absent"
                                           ELSE "changed"])
          [] statement.stmt = "execute" ->
                \* INSERT INTO exercise_question: the question must exist
                IF s.view[row] = "absent" \/ s.view[LinkOf(row)] # "absent"
                THEN error(s)
                ELSE ok([s EXCEPT !.view[LinkOf(row)] = "new"])
          [] statement.stmt = "flush" -> IF s.broken THEN error(s) ELSE ok(s)
          [] statement.stmt = "commit" ->
                IF s.broken THEN error(s) ELSE ok([s EXCEPT !.stored = s.view])
          [] statement.stmt = "refresh" ->
                \* InvalidRequestError for an instance that is not in the session
                IF row \in s.attached THEN ok(s) ELSE error(s)

\* session.rollback(): the changes of the open transaction are dropped.
Rollback(s) == [s EXCEPT !.view = s.stored, !.broken = FALSE]

RECURSIVE RunStatements(_, _, _, _)
\* The try block from its k-th statement on; `except SQLAlchemyError:
\* session.rollback(); raise` when a statement raises.
RunStatements(statements, s, k, failing) ==
    IF k > Len(statements) THEN [stored |-> s.stored, outcome |-> "returned", at |-> 0]
    ELSE LET r == Execute(s, statements[k],
                          k = failing /\ TalksToDatabase(statements[k]))
         IN  IF r.raised
             THEN [stored |-> Rollback(r.session).stored, outcome |-> "raised",
                   at |-> k]
             ELSE RunStatements(statements, r.session, k + 1, failing)

\* One write operation of the gateway: its own session, its statements.
WriteOperation(store, op, args, failing) ==
    RunStatements(Statements(op, args), NewSession(store), 1, failing)

WriteOperations ==
    {"create", "update", "delete", "update_textbook_extraction_status",
     "create_exercise_with_questions", "batch_create_questions"}

\* The arguments tried with each operation.
ArgumentsOf(op) ==
    CASE op \in {"create", "update", "delete"} ->
            {<<"textbook">>, <<"question1">>, <<"question2">>}
      [] op = "update_textbook_extraction_status" -> {<<"textbook">>}
      [] OTHER -> {<<>>, <<"question1">>, <<"question1", "question2">>}

NoGatewayCall ==
    [op |-> "none", args |-> <<>>, outcome |-> "none", at |-> 0, failing |-> 0,
     before |-> EmptyStore]

\* db_service.<op>(args), the failing-th statement of which meets a database
\* failure (0: none does).
CallGateway(op, args, failing) ==
    /\ LET r == WriteOperation(stored, op, args, failing)
       IN  /\ stored' = r.stored
           /\ gatewayCall' = [op |-> op, args |-> args, outcome |-> r.outcome,
                              at |-> r.at, failing |-> failing, before |-> stored]
    /\ UNCHANGED <<strategyVars, registryVars, managerVars, ingestVars, overlapVars,
                   queryVars, apiVars, ragVars, toolkitVars, parameterVars, toolVars>>

----------------------------------------------------------------------------
(* agents/base.py: the toolkit of a BaseAgent                              *)

MaxActions == 3

ToolNames == {"rag", "quiz"}
ToolInstances == {"tool1", "tool2"}

\* del d[k]
DictDel(d, k) ==
    LET Other(pair) == pair[1] # k
    IN  SelectSeq(d, Other)

\* list.remove(x): the list without the first x.
RECURSIVE ListRemove(_, _)
ListRemove(list, x) ==
    IF list = <<>> THEN <<>>
    ELSE IF Head(list) = x THEN Tail(list)
    ELSE <<Head(list)>> \o ListRemove(Tail(list), x)

\* x in list
InList(list, x) == \E i \in 1..Len(list) : list[i] = x

\* f"use_{tool_name}"
ActionOf(tool_name) == "use_" \o tool_name

\* BaseAgent.add_tool: the toolkit after the call.
add_tool(kit, tool_name, tool_instance) ==
    [tools |-> DictSet(kit.tools, tool_name, tool_instance),
     available_actions |-> Append(kit.available_actions, ActionOf(tool_name))]

\* BaseAgent.remove_tool: the toolkit after the call and whether the call
\* raised (list.remove raises ValueError for a value that is not in the list).
remove_tool(kit, tool_name) ==
    IF DictHas(kit.tools, tool_name)
    THEN IF InList(kit.available_actions, ActionOf(tool_name))
         THEN [kit |-> [tools |-> DictDel(kit.tools, tool_name),
                        available_actions |->
                            ListRemove(kit.available_actions, ActionOf(tool_name))],
               raised |-> FALSE]
         ELSE [kit |-> [kit EXCEPT !.tools = DictDel(kit.tools, tool_name)],
               raised |-> TRUE]
    ELSE [kit |-> kit, raised |-> FALSE]

\* BaseAgent.has_tool
has_tool(kit, tool_name) == DictHas(kit.tools, tool_name)

NoAgentCall ==
    [op |-> "none", tool_name |-> None, raised |-> FALSE,
     before |-> [tools |-> EmptyDict, available_actions |-> <<>>]]

\* agent.add_tool(tool_name, tool_instance)
AddTool(tool_name, tool_instance) ==
    /\ Len(available_actions) < MaxActions
    /\ LET kit == add_tool([tools |-> tools, available_actions |-> available_actions],
                           tool_name, tool_instance)
       IN  /\ tools' = kit.tools
           /\ available_actions' = kit.available_actions
    /\ agentCall' = [op |-> "add_tool", tool_name |-> tool_name, raised |-> FALSE,
                     before |-> [tools |-> tools,
                                 available_actions |-> available_actions]]
    /\ UNCHANGED <<strategyVars, registryVars, managerVars, ingestVars, overlapVars,
                   queryVars, apiVars, ragVars, gatewayVars, parameterVars, toolVars>>

\* agent.remove_tool(tool_name)
RemoveTool(tool_name) ==
    /\ LET r == remove_tool([tools |-> tools, available_actions |-> available_actions],
                            tool_name)
       IN  /\ tools' = r.kit.tools
           /\ available_actions' = r.kit.available_actions
           /\ agentCall' = [op |-> "remove_tool", tool_name |-> tool_name,
                            raised |-> r.raised,
                            before |-> [tools |-> tools,
                                        available_actions |-> available_actions]]
    /\ UNCHANGED <<strategyVars, registryVars, managerVars, ingestVars, overlapVars,
                   queryVars, apiVars, ragVars, gatewayVars, parameterVars, toolVars>>

----------------------------------------------------------------------------
(* tools/base.py: the parameter definitions of a BaseTool                  *)

MaxRequired == 2

ParameterNames == {"topic", "count", "difficulty"}

\* The definition add_parameter stores under a name.
Definition(required) ==
    [description |-> "text", required |-> required, default |-> None]

\* BaseTool.add_parameter: the definitions and the required list after the call.
add_parameter(tool, name, required) ==
    [parameters |-> DictSet(tool.parameters, name, Definition(required)),
     required_parameters |-> IF required THEN Append(tool.required_parameters, name)
                             ELSE tool.required_parameters]

\* BaseTool.remove_parameter
remove_parameter(tool, name) ==
    IF DictHas(tool.parameters, name)
    THEN [parameters |-> DictDel(tool.parameters, name),
          required_parameters |->
              IF InList(tool.required_parameters, name)
              THEN ListRemove(tool.required_parameters, name)
              ELSE tool.required_parameters]
    ELSE tool

\* tool.add_parameter(name, description, required)
AddParameter(name, required) ==
    /\ required => Len(required_parameters) < MaxRequired
    /\ LET tool == add_parameter([parameters |-> parameters,
                                  required_parameters |-> required_parameters],
                                 name, required)
       IN  /\ parameters' = tool.parameters
           /\ required_parameters' = tool.required_parameters
    /\ UNCHANGED <<strategyVars, registryVars, managerVars, ingestVars, overlapVars,
                   queryVars, apiVars, ragVars, gatewayVars, toolkitVars, toolVars>>

\* tool.remove_parameter(name)
RemoveParameter(name) ==
    /\ LET tool == remove_parameter([parameters |-> parameters,
                                     required_parameters |-> required_parameters],
                                    name)
       IN  /\ parameters' = tool.parameters
           /\ required_parameters' = tool.required_parameters
    /\ UNCHANGED <<strategyVars, registryVars, managerVars, ingestVars, overlapVars,
                   queryVars, apiVars, ragVars, gatewayVars, toolkitVars, toolVars>>

----------------------------------------------------------------------------
(* tools/analytics_tool.py, tools/assessment_tool.py and                   *)
(* tools/question_tool.py: validate_parameters and execute                 *)

ToolClasses == {"AnalyticsTool", "AssessmentTool", "QuestionGenerationTool"}

\* The operation names either method of a tool compares with, and one more.
OperationsOf(tool) ==
    CASE tool = "AnalyticsTool" ->
            {"student_analytics", "class_analytics", "identify_gaps",
             "generate_report", "predict_performance", "other"}
      [] tool = "AssessmentTool" ->
            {"evaluate", "generate_feedback", "identify_mistakes",
             "calculate_metrics", "other"}
      [] tool = "QuestionGenerationTool" ->
            {"generate", "adjust_difficulty", "generate_distractors", "validate",
             "other"}

\* ToolParameters: the optional fields that are not None.
ParameterFields ==
    {"knowledge_point_ids", "question_type", "question_text", "target_difficulty",
     "question_data"}

\* user_query as user_query.split(":") sees it; <<>> stands for None and "".
UserQueries ==
    {<<>>, <<"uuid">>, <<"text">>, <<"student", "uuid">>, <<"student", "text">>,
     <<"gaps", "uuid", "math">>, <<"adjust", "text", "0.5">>,
     <<"feedback", "uuid", "answer", "answer">>}

\* submissions; <<>> stands for None and [].
SubmissionLists == {<<>>, <<"submission">>}

\* uuid.UUID(s) and float(s) raise ValueError for other strings.
IsUuid(s) == s = "uuid"
IsFloat(s) == s = "0.5"

AnalyticsMinStudentIdParts == 2
AssessmentMinParts == 3
QuestionMinParts == 2

\* What execute returns or raises.
Dispatched(method) == [kind |-> "dispatched", detail |-> method]
ErrorResult(error) == [kind |-> "error", detail |-> error]
RaisedError(exc) == [kind |-> "raised", detail |-> exc]
UnknownOperation == ErrorResult("Unknown or invalid operation")
NotImplemented == ErrorResult("Operation not implemented")

\* user_query.split(":")[1].strip() if ":" in user_query else user_query
SecondPartOrAll(parts) == IF Len(parts) > 1 THEN parts[2] ELSE parts[1]

\* AnalyticsTool.execute
analytics_execute(operation, user_query) ==
    LET to(method, id) == IF IsUuid(id) THEN Dispatched(method)
                          ELSE RaisedError("ValueError")
    IN  IF operation = "student_analytics" /\ user_query # <<>>
        THEN to("get_student_analytics", SecondPartOrAll(user_query))
        ELSE IF operation = "class_analytics" /\ user_query # <<>>
        THEN to("get_class_analytics", SecondPartOrAll(user_query))
        ELSE IF operation = "identify_gaps" /\ user_query # <<>>
        THEN to("identify_learning_gaps",
                IF Len(user_query) > AnalyticsMinStudentIdParts - 1
                THEN user_query[2] ELSE user_query[1])
        ELSE IF operation = "generate_report" /\ user_query # <<>>
        THEN to("generate_progress_report", SecondPartOrAll(user_query))
        ELSE UnknownOperation

\* AssessmentTool.execute
assessment_execute(operation, user_query, submissions) ==
    LET second(method) ==
            IF Len(user_query) < 2 THEN RaisedError("IndexError")
            ELSE IF IsUuid(user_query[2]) THEN Dispatched(method)
            ELSE RaisedError("ValueError")
    IN  IF operation = "evaluate" /\ submissions # <<>>
        THEN Dispatched("evaluate_answers")
        ELSE IF operation = "generate_feedback" /\ user_query # <<>>
        THEN IF Len(user_query) >= AssessmentMinParts
             THEN IF IsUuid(user_query[2]) THEN Dispatched("generate_feedback")
                  ELSE RaisedError("ValueError")
             ELSE NotImplemented
        ELSE IF operation = "identify_mistakes" /\ user_query # <<>>
        THEN second("identify_mistake_patterns")
        ELSE IF operation = "calculate_metrics" /\ user_query # <<>>
        THEN second("calculate_performance_metrics")
        ELSE UnknownOperation

\* QuestionGenerationTool.execute
question_execute(operation, user_query) ==
    IF operation = "generate" /\ user_query # <<>>
    THEN IF Len(user_query) >= QuestionMinParts
         THEN IF IsUuid(user_query[2]) THEN Dispatched("generate_questions")
              ELSE RaisedError("ValueError")
         ELSE NotImplemented
    ELSE IF operation = "adjust_difficulty" /\ user_query # <<>>
    THEN IF Len(user_query) >= QuestionMinParts
         THEN IF Len(user_query) > QuestionMinParts /\ ~IsFloat(user_query[3])
              THEN RaisedError("ValueError")
              ELSE Dispatched("adjust_difficulty")
         ELSE NotImplemented
    ELSE IF operation = "validate" /\ user_query # <<>>
    THEN Dispatched("validate_question")
    ELSE UnknownOperation

\* <tool>.execute(operation, user_query=..., submissions=...)
execute(tool, operation, user_query, submissions) ==
    CASE tool = "AnalyticsTool" -> analytics_execute(operation, user_query)
      [] tool = "AssessmentTool" -> assessment_execute(operation, user_query, submissions)
      [] tool = "QuestionGenerationTool" -> question_execute(operation, user_query)

\* <tool>.validate_parameters(parameters); given are the fields that are not None.
validate_parameters(tool, operation, given) ==
    CASE tool = "AnalyticsTool" ->
            /\ operation \in {"student_analytics", "class_analytics", "identify_gaps",
                              "generate_report", "predict_performance"}
            /\ "knowledge_point_ids" \in given
      [] tool = "AssessmentTool" ->
            \/ operation = "evaluate"
            \/ operation = "generate_feedback" /\ "question_text" \in given
            \/ /\ operation \in {"identify_mistakes", "calculate_metrics"}
               /\ "knowledge_point_ids" \in given
      [] tool = "QuestionGenerationTool" ->
            \/ /\ operation = "generate"
               /\ {"knowledge_point_ids", "question_type"} \subseteq given
            \/ /\ operation = "adjust_difficulty"
               /\ {"question_text", "target_difficulty"} \subseteq given
            \/ /\ operation = "generate_distractors"
               /\ {"question_text", "knowledge_point_ids"} \subseteq given
            \/ operation = "validate" /\ "question_data" \in given

NoToolCall ==
    [tool |-> None, operation |-> None, truthy_query |-> FALSE,
     truthy_submissions |-> FALSE, valid |-> FALSE, result |-> ErrorResult(None)]

\* A caller validates the parameters of an operation and executes it.
UseTool(tool, operation, given, user_query, submissions) ==
    /\ toolCall' = [tool |-> tool, operation |-> operation,
                    truthy_query |-> user_query # <<>>,
                    truthy_submissions |-> submissions # <<>>,
                    valid |-> validate_parameters(tool, operation, given),
                    result |-> execute(tool, operation, user_query, submissions)]
    /\ UNCHANGED <<strategyVars, registryVars, managerVars, ingestVars, overlapVars,
                   queryVars, apiVars, ragVars, gatewayVars, toolkitVars,
                   parameterVars>>

----------------------------------------------------------------------------
(* Specifications                                                          *)

StrategyInit == heap = <<>> /\ returned = {} /\ lastResult = NoResult
RegistryInit == backends = EmptyDict /\ registrations = <<>> /\ vsResult = NoVsResult
ManagerInit ==
    /\ agents = EmptyDict
    /\ agent_mapping = EmptyDict
    /\ request_log = <<>>
    /\ addHistory = <<>>
    /\ lastCall = NoCall
    /\ callHistory = <<>>
IngestInit == db = EmptyDb /\ ingestions = <<>>
OverlapInit == active = <<>> /\ writes = {}
QueryInit == searchQuery = NoQuery
ApiInit == routes = DocRoutes /\ included = 0 /\ httpResponse = NoResponse
RagInit == rag_system = InitialRagSystem /\ ragCall = NoRagCall
GatewayInit == stored = EmptyStore /\ gatewayCall = NoGatewayCall
ToolkitInit == tools = EmptyDict /\ available_actions = <<>> /\ agentCall = NoAgentCall
ParameterInit == parameters = EmptyDict /\ required_parameters = <<>>
ToolInit == toolCall = NoToolCall

Init ==
    /\ StrategyInit /\ RegistryInit /\ ManagerInit /\ IngestInit
    /\ OverlapInit /\ QueryInit /\ ApiInit /\ RagInit
    /\ GatewayInit /\ ToolkitInit /\ ParameterInit /\ ToolInit

StrategyNext ==
    \/ \E t \in StrategyTypes : CreateExtractionStrategy(t)
    \/ \E t \in StrategyTypes : CreateRetrievalStrategy(t)
    \/ \E ref \in returned, m \in ExtractionMethods \cup RetrievalMethods,
          input \in MethodInputs : CallStrategyMethod(ref, m, input)

RegistryNext ==
    \/ \E n \in BackendNames, c \in BackendClasses : RegisterBackend(n, c)
    \/ \E config \in Configs : CreateVectorStore(config)
    \/ \E n \in BackendNames : IsBackendSupported(n)
    \/ GetSupportedBackends

ManagerNext ==
    \/ \E a \in AgentIds, t \in DeclaredTypes : AddAgent(a, t)
    \/ \E rt \in RequestTypes, v \in ValidateOutcomes, p \in ProcessOutcomes :
          HandleRequest(rt, v, p)
    \/ CheckAgentStatus

IngestNext ==
    \E plan \in Plans :
        \E failing \in 0..Len(Calls(plan, Len(db.textbooks) + 1)) :
            ExtractDocumentToDatabase(plan, failing)

OverlapNext ==
    \/ \E a \in AgentIds, t \in OverlapDeclaredTypes : AddAgent(a, t)
    \/ \E rt \in OverlapRequestTypes : BeginRequest(rt)
    \/ \E c \in 1..Len(active), v \in ValidateOutcomes : ValidateRequest(c, v)
    \/ \E c \in 1..Len(active), p \in ProcessOutcomes : ProcessRequest(c, p)
    \/ \E c \in 1..Len(active) : WriteStatus(c)
    \/ \E c \in 1..Len(active) : WriteAgentOrError(c)

QueryNext ==
    \E e \in Embeddings, l \in LimitArgs, f \in FilterArgs, t \in ThresholdArgs :
        ConstructSearchQuery(e, l, f, t)

ApiNext ==
    \/ IncludeRouter
    \/ AddRootRoute
    \/ AddHealthRoute
    \/ \E m \in HttpMethods, path \in RequestPaths, input \in RequestInputs :
          HttpRequest(m, path, input)
    \/ \E c \in ClientMethods, id \in Identifiers, input \in RequestInputs :
          ClientCall(c, id, input)

RagNext ==
    \/ \E n \in StrategyNames, s \in StrategyObjects : RegisterStrategy(n, s)
    \/ \E n \in StrategyNames : SwitchExtractionStrategy(n)
    \/ \E n \in StrategyNames : SwitchRetrievalStrategy(n)

GatewayNext ==
    \E op \in WriteOperations :
        \E args \in ArgumentsOf(op) :
            \E failing \in 0..Len(Statements(op, args)) :
                CallGateway(op, args, failing)

ToolkitNext ==
    \/ \E n \in ToolNames, t \in ToolInstances : AddTool(n, t)
    \/ \E n \in ToolNames : RemoveTool(n)

ParameterNext ==
    \/ \E n \in ParameterNames, r \in BOOLEAN : AddParameter(n, r)
    \/ \E n \in ParameterNames : RemoveParameter(n)

ToolNext ==
    \E tool \in ToolClasses :
        \E operation \in OperationsOf(tool), given \in SUBSET ParameterFields,
           user_query \in UserQueries, submissions \in SubmissionLists :
            UseTool(tool, operation, given, user_query, submissions)

\* The strategy factory and the strategies it creates.
StrategySpec == Init /\ [][StrategyNext]_vars

\* The vector-store backend registry.
RegistrySpec == Init /\ [][RegistryNext]_vars

\* The agent manager.
ManagerSpec == Init /\ [][ManagerNext]_vars

\* Textbook ingestion over the persistence gateway.
IngestSpec == Init /\ [][IngestNext]_vars

\* handle_request calls that overlap in one manager.
OverlapSpec == Init /\ [][OverlapNext]_vars

\* Construction of SearchQuery values.
QuerySpec == Init /\ [][QueryNext]_vars

\* The FastAPI application: its route table and the requests it answers.
ApiSpec == Init /\ [][ApiNext]_vars

\* RAGSystem's strategy registry and the strategy switches of RAGTool.
RagSpec == Init /\ [][RagNext]_vars

\* The write operations of the persistence gateway, each in its own session.
GatewaySpec == Init /\ [][GatewayNext]_vars

\* The toolkit of one agent: add_tool and remove_tool.
ToolkitSpec == Init /\ [][ToolkitNext]_vars

\* The parameter definitions of one tool: add_parameter and remove_parameter.
ParameterSpec == Init /\ [][ParameterNext]_vars

\* validate_parameters and execute of the three concrete tool interfaces.
ToolSpec == Init /\ [][ToolNext]_vars

Next ==
    \/ StrategyNext \/ RegistryNext \/ ManagerNext \/ IngestNext
    \/ OverlapNext \/ QueryNext \/ ApiNext \/ RagNext
    \/ GatewayNext \/ ToolkitNext \/ ParameterNext \/ ToolNext

Spec == Init /\ [][Next]_vars

----------------------------------------------------------------------------
(* Properties of the strategy factory (StrategySpec)                       *)

RecognisedExtraction == {"glm", "rule_based", "hybrid"}
RecognisedRetrieval == {"semantic", "keyword", "hybrid", "educational"}

\* C1: create_extraction_strategy and create_retrieval_strategy, given a
\* type string outside their recognised sets, raise a ValueError whose
\* message contains the requested type string; the caller gets no strategy.
C1_UnknownTypeRaisesValueError ==
    /\ (lastResult.op = "create_extraction_strategy"
        /\ lastResult.arg \notin RecognisedExtraction)
       => /\ lastResult.kind = "ValueError"
          /\ lastResult.exc = "ValueError"
          /\ Contains(lastResult.msg, lastResult.arg)
    /\ (lastResult.op = "create_retrieval_strategy"
        /\ lastResult.arg \notin RecognisedRetrieval)
       => /\ lastResult.kind = "ValueError"
          /\ lastResult.exc = "ValueError"
          /\ Contains(lastResult.msg, lastResult.arg)

\* The factory has just refused "unknown_x".
C1_Witness ==
    /\ lastResult.op = "create_extraction_strategy"
    /\ lastResult.arg = "unknown_x"
    /\ lastResult.kind = "ValueError"
    /\ lastResult.msg = "Unknown extraction strategy: unknown_x"

\* C7: every strategy object the factory has created, returned or held as
\* a delegate, raises NotImplementedError from each method of its interface
\* for every input, and the call a caller has just made on one did so.
C7_StrategiesFailLoudly ==
    /\ \A ref \in 1..Len(heap) :
          \A m \in MethodsOf(heap[ref].cls), input \in MethodInputs :
              LET r == Invoke(heap[ref].cls, m, input)
              IN  r.kind = "raise" /\ r.exc = "NotImplementedError"
    /\ lastResult.op \in ExtractionMethods \cup RetrievalMethods
       => lastResult.kind = "raise" /\ lastResult.exc = "NotImplementedError"

\* A caller has just called extract_knowledge_points on a hybrid extraction
\* strategy the factory returned.
C7_Witness ==
    /\ lastResult.op = "extract_knowledge_points"
    /\ lastResult.ref \in returned
    /\ heap[lastResult.ref].cls = "HybridExtractionStrategy"
    /\ lastResult.kind = "raise"

\* The refs an object holds.
DelegatesOf(ref) == {heap[ref].delegates[i] : i \in 1..Len(heap[ref].delegates)}

\* The classes of the two delegates a hybrid class composes, in order.
ExpectedDelegates(cls) ==
    CASE cls = "HybridExtractionStrategy" ->
            <<"GLMExtractionStrategy", "RuleBasedExtractionStrategy">>
      [] cls = "HybridRetrievalStrategy" ->
            <<"SemanticRetrievalStrategy", "KeywordRetrievalStrategy">>
      [] OTHER -> <<>>

\* C10: a hybrid strategy the factory returned holds exactly two delegates,
\* of the expected classes, and no delegate of it is held by another object
\* or was itself returned by the factory; other strategies hold none.
C10_HybridOwnsItsDelegates ==
    \A r \in returned :
        /\ [i \in 1..Len(heap[r].delegates) |-> heap[heap[r].delegates[i]].cls]
              = ExpectedDelegates(heap[r].cls)
        /\ Cardinality(DelegatesOf(r)) = Len(heap[r].delegates)
        /\ DelegatesOf(r) \cap returned = {}
        /\ \A o \in (1..Len(heap)) \ {r} : DelegatesOf(o) \cap DelegatesOf(r) = {}

\* The factory has returned two hybrid strategies.
C10_Witness ==
    \E r1, r2 \in returned :
        /\ r1 # r2
        /\ Len(heap[r1].delegates) = 2
        /\ Len(heap[r2].delegates) = 2

----------------------------------------------------------------------------
(* Properties of the vector-store backend registry (RegistrySpec)          *)

\* The spellings of one backend name.
CaseVariants == {{"pg", "PG", "Pg"}, {"qd"}}

SameIgnoringCase(a, b) == \E S \in CaseVariants : a \in S /\ b \in S

\* The register_backend calls made under a name, whatever its case.
RegisteredUnder(name) ==
    {i \in 1..Len(registrations) : SameIgnoringCase(registrations[i].name, name)}

\* C2: create_vector_store(config) returns an instance of the class most
\* recently registered under config.backend (names compared without regard
\* to case), constructed with that config, and raises the unsupported-backend
\* ValueError when no registration under that name was made.
C2_CreateUsesLatestRegistration ==
    vsResult.op = "create_vector_store" =>
        IF RegisteredUnder(vsResult.arg.backend) = {}
        THEN /\ vsResult.kind = "ValueError"
             /\ Contains(vsResult.msg, "Unsupported vector store backend: ")
        ELSE /\ vsResult.kind = "instance"
             /\ vsResult.cls = registrations[Max(RegisteredUnder(vsResult.arg.backend))].cls
             /\ vsResult.config = vsResult.arg

\* A backend name was registered twice with different classes and a store
\* has just been created under it.
C2_Witness ==
    /\ vsResult.op = "create_vector_store"
    /\ vsResult.kind = "instance"
    /\ \E i, j \in RegisteredUnder(vsResult.arg.backend) :
          i < j /\ registrations[i].cls # registrations[j].cls

----------------------------------------------------------------------------
(* Properties of the agent manager (ManagerSpec)                           *)

\* The agent type a request type is routed to; None for any other type.
RouteOf(request_type) ==
    CASE request_type \in {"question_generation", "generate_questions"} ->
            "question_generator"
      [] request_type \in {"assessment", "evaluate_answers"} -> "assessment"
      [] request_type \in {"tutoring", "explanation", "learning_support"} -> "tutor"
      [] OTHER -> None

\* The add_agent calls made with an agent of the given type.
AddsOfType(agent_type) ==
    {i \in 1..Len(addHistory) : AgentTypeOf(addHistory[i].declared) = agent_type}

\* C3 as stated: a request whose type has a registered agent goes to the
\* agent registered for that type, and every other request, when an agent
\* is registered, goes to the first registered agent.
C3_Original ==
    \A rt \in RequestTypes :
        LET found == find_agent_for_request(agents, agent_mapping, rt)
        IN  IF RouteOf(rt) # None /\ AddsOfType(RouteOf(rt)) # {}
            THEN found = addHistory[Max(AddsOfType(RouteOf(rt)))].agent_id
            ELSE Len(addHistory) > 0 => found = addHistory[1].agent_id

\* C3, amended: a recognised request type goes to the agent most recently
\* registered for its agent type and to no agent (the empty string) when
\* none of that type was registered; only an unrecognised type goes to the
\* first registered agent (the empty string when none is registered).
C3_RoutingByType ==
    \A rt \in RequestTypes :
        LET found == find_agent_for_request(agents, agent_mapping, rt)
        IN  IF RouteOf(rt) # None
            THEN IF AddsOfType(RouteOf(rt)) # {}
                 THEN found = addHistory[Max(AddsOfType(RouteOf(rt)))].agent_id
                 ELSE found = ""
            ELSE IF Len(addHistory) > 0
                 THEN found = addHistory[1].agent_id
                 ELSE found = ""

\* An assessment request has just been refused although an agent, of
\* another type, is registered.
C3_Witness ==
    /\ lastCall.op = "handle_request"
    /\ lastCall.request_type = "assessment"
    /\ Len(agents) > 0
    /\ AddsOfType("assessment") = {}
    /\ lastCall.outcome = "returned"
    /\ lastCall.response.error_message = "No suitable agent found"

\* process_request of the selected agent raised during the last call.
ProcessRaised ==
    lastCall.op = "handle_request" /\ lastCall.agent_error.error_type # None

\* C4: when process_request of the selected agent raises, the error handling
\* yields the suggestions ["try_again", "use_different_agent"] and the ids of
\* all other registered agents, and the result handle_request returns
\* carries both.
C4_ErrorResultCarriesSuggestionsAndAlternatives ==
    ProcessRaised =>
        LET failed == lastCall.response.agent_id
            others == SelectSeq(DictKeys(agents), LAMBDA aid : aid # failed)
            data == lastCall.response.response_data
        IN  /\ lastCall.agent_error.suggestions = <<"try_again", "use_different_agent">>
            /\ lastCall.agent_error.alternative_agents = others
            /\ "suggestions" \in DOMAIN data
            /\ data.suggestions = <<"try_again", "use_different_agent">>
            /\ "alternative_agents" \in DOMAIN data
            /\ data.alternative_agents = others

\* C5: handle_request never lets an exception of the selected agent through:
\* whenever validate_request or process_request raised, the call returns a
\* response with success false, the error text and the suggestions.
C5_AgentFailureIsWrapped ==
    lastCall.op = "handle_request" =>
        /\ lastCall.outcome = "returned"
        /\ ProcessRaised =>
              /\ lastCall.response.success = FALSE
              /\ lastCall.response.error_message = AgentFailure
              /\ lastCall.response.response_data.suggestions
                    = <<"try_again", "use_different_agent">>

\* The calls of process_request among the methods a call invoked.
ProcessCalls(invoked) == SelectSeq(invoked, LAMBDA c : c[2] = "process_request")

\* C6: one handle_request call invokes process_request at most once, also
\* when it raises, and invokes no agent but the one find_agent_for_request
\* chose for the request.
C6_NoRetryNoFallback ==
    lastCall.op = "handle_request" =>
        /\ Len(ProcessCalls(lastCall.invoked)) <= 1
        /\ \A i \in 1..Len(lastCall.invoked) :
              lastCall.invoked[i][1]
                 = find_agent_for_request(agents, agent_mapping, lastCall.request_type)

\* process_request of the chosen agent has just raised while another agent
\* was registered.
C6_Witness ==
    /\ ProcessRaised
    /\ Len(agents) = 2
    /\ Len(ProcessCalls(lastCall.invoked)) = 1

\* The calls made so far that chose agent_id and whose process_request
\* ended as given ("return" or "raise").
CallsProcessedBy(agent_id, ended) ==
    {k \in 1..Len(callHistory) :
        \E i \in 1..Len(callHistory[k].invoked) :
            callHistory[k].invoked[i] = <<agent_id, "process_request", ended>>}

\* C17: once a handle_request call has returned, on whichever path, the
\* request_log entry the call appended has status "completed" or "failed";
\* none stays "processing".
C17_ReturnedCallHasFinalStatus ==
    \A k \in 1..Len(callHistory) :
        callHistory[k].outcome = "returned"
            => request_log[callHistory[k].entry].status \in {"completed", "failed"}

\* C18: check_agent_status reports, for every registered agent, as failed
\* the number of calls routed to it whose process_request raised, as
\* completed the number of calls routed to it that succeeded, and as
\* total_requests their sum.
C18_StatusCountsMatchCalls ==
    lastCall.op = "check_agent_status" =>
        \A i \in 1..Len(lastCall.response.status_data) :
            LET agent_id == lastCall.response.status_data[i][1]
                status == lastCall.response.status_data[i][2]
            IN  /\ status.failed = Cardinality(CallsProcessedBy(agent_id, "raise"))
                /\ status.completed = Cardinality(CallsProcessedBy(agent_id, "return"))
                /\ status.total_requests = status.completed + status.failed

\* C20: a handle_request call invokes process_request only right after
\* validate_request of the same agent returned a truthy value; when
\* validate_request returned a falsy value the call answers "Request not
\* valid for this agent" and process_request is not invoked.
C20_ValidateBeforeProcess ==
    lastCall.op = "handle_request" =>
        LET inv == lastCall.invoked
        IN  /\ \A i \in 1..Len(inv) :
                  inv[i][2] = "process_request"
                     => /\ i > 1
                        /\ inv[i - 1] = <<inv[i][1], "validate_request", "truthy">>
            /\ (\E i \in 1..Len(inv) : inv[i][3] = "falsy")
                  => /\ ProcessCalls(inv) = <<>>
                     /\ lastCall.outcome = "returned"
                     /\ lastCall.response.success = FALSE
                     /\ lastCall.response.error_message
                           = "Request not valid for this agent"
                     /\ lastCall.response.response_data.error
                           = "Request not valid for this agent"

\* validate_request of the chosen agent has just returned a falsy value and
\* the request was answered as not valid.
C20_Witness ==
    /\ lastCall.op = "handle_request"
    /\ Len(lastCall.invoked) = 1
    /\ lastCall.invoked[1][2] = "validate_request"
    /\ lastCall.invoked[1][3] = "falsy"
    /\ lastCall.response.error_message = "Request not valid for this agent"

\* C21: every entry of agent_mapping, of a type T, names a registered
\* agent whose declared agent_type is T and which is the agent most recently
\* added with type T.
C21_MappingIsConsistent ==
    \A i \in 1..Len(agent_mapping) :
        LET agent_type == agent_mapping[i][1]
            agent_id == agent_mapping[i][2]
        IN  /\ DictHas(agents, agent_id)
            /\ AgentTypeOf(DictGet(agents, agent_id, None)) = agent_type
            /\ agent_id = addHistory[Max(AddsOfType(agent_type))].agent_id

----------------------------------------------------------------------------
(* Properties of overlapping handle_request calls (OverlapSpec)            *)

\* C19: every write a call makes to the request log, of its final status,
\* agent_id or error, goes to the entry that call appended.
C19_WritesGoToOwnEntry ==
    \A w \in writes : w.entry = active[w.call].entry

----------------------------------------------------------------------------
(* Properties of the SearchQuery model (QuerySpec)                         *)

\* C11: the result-count limit of every SearchQuery that was constructed is
\* a positive integer.
C11_LimitIsPositive ==
    searchQuery.kind = "instance" => searchQuery.limit > 0

----------------------------------------------------------------------------
(* Properties of the API application (ApiSpec)                             *)

ImportantPaths ==
    {"/api/v1/questions/generate", "/api/v1/assessment/evaluate",
     "/api/v1/textbook/upload", "/api/v1/users/register"}

\* C15: the imported application has, for each of the four important
\* paths, a route whose path starts with it, and every route whose path
\* starts with /api has at least one HTTP method.
C15_ImportantRoutesExist ==
    Imported =>
        /\ \A p \in ImportantPaths :
              \E i \in 1..Len(routes) : StartsWith(routes[i].path, p)
        /\ \A i \in 1..Len(routes) :
              StartsWith(routes[i].path, "/api") => routes[i].methods # {}

\* C16: GET /hello is answered with status 200 and the JSON body "hello".
C16_HelloAnswersHello ==
    (httpResponse.method = "GET" /\ httpResponse.path = "/hello")
        => httpResponse.status = 200 /\ httpResponse.body = "hello"

----------------------------------------------------------------------------
(* Properties of textbook ingestion (IngestSpec)                           *)

\* No row of the three extraction tables belongs to textbook tb.
NoRowsOf(tb) ==
    /\ \A r \in db.knowledge_points : r.textbook # tb
    /\ \A r \in db.ability_targets : r.textbook # tb
    /\ \A r \in db.common_mistakes : r.textbook # tb

\* C8: an ingestion that failed at any step leaves none of the knowledge
\* points, ability targets and common mistakes it produced in the store.
C8_IngestionIsOneUnit ==
    \A i \in 1..Len(ingestions) :
        (ingestions[i].outcome = "raised" /\ ingestions[i].textbook # 0)
            => NoRowsOf(ingestions[i].textbook)

----------------------------------------------------------------------------
(* Properties of the strategy switches of RAGTool (RagSpec)                *)

\* Whether the name is registered with an instance of the class, in a RAG system.
RegisteredAs(rag, strategy_name, class) ==
    /\ DictHas(rag.available_strategies, strategy_name)
    /\ isinstance(DictGet(rag.available_strategies, strategy_name, None), class)

\* C22: switch_extraction_strategy(name) returns True and makes the registered
\* object the current extraction strategy exactly when the name is registered
\* with a KnowledgeExtractionStrategy; otherwise it returns False and leaves both
\* current strategies and the registry as they were.  switch_retrieval_strategy
\* does the same for a RetrievalStrategy, and neither changes the current
\* strategy of the other kind.
C22_SwitchOnlyToRegisteredKind ==
    LET before == ragCall.before
        name == ragCall.strategy_name
        registered == DictGet(before.available_strategies, name, None)
    IN  /\ ragCall.op = "switch_extraction_strategy" =>
              /\ ragCall.returned
                     <=> RegisteredAs(before, name, "KnowledgeExtractionStrategy")
              /\ ragCall.returned =>
                     /\ rag_system.extraction_strategy = registered
                     /\ rag_system = set_extraction_strategy(before, registered)
              /\ ~ragCall.returned => rag_system = before
              /\ rag_system.retrieval_strategy = before.retrieval_strategy
        /\ ragCall.op = "switch_retrieval_strategy" =>
              /\ ragCall.returned <=> RegisteredAs(before, name, "RetrievalStrategy")
              /\ ragCall.returned =>
                     /\ rag_system.retrieval_strategy = registered
                     /\ rag_system = set_retrieval_strategy(before, registered)
              /\ ~ragCall.returned => rag_system = before
              /\ rag_system.extraction_strategy = before.extraction_strategy

\* A switch to a registered extraction strategy has replaced the current one, and
\* the registry also holds a name that the same switch would refuse.
C22_Witness ==
    /\ ragCall.op = "switch_extraction_strategy"
    /\ ragCall.returned
    /\ rag_system.extraction_strategy # ragCall.before.extraction_strategy
    /\ \E n \in StrategyNames :
           /\ DictHas(rag_system.available_strategies, n)
           /\ ~RegisteredAs(rag_system, n, "KnowledgeExtractionStrategy")

\* The rows an ingestion of the plan stores for the textbook tb.
KnowledgePointsOf(plan, tb) == {[textbook |-> tb, kp |-> i] : i \in 1..plan.kps}
AbilityTargetsOf(plan, tb) ==
    UNION {{[textbook |-> tb, kp |-> i, n |-> j] : j \in 1..plan.at[i]} :
              i \in 1..plan.kps}
CommonMistakesOf(plan, tb) ==
    UNION {{[textbook |-> tb, kp |-> i, n |-> j] : j \in 1..plan.cm[i]} :
              i \in 1..plan.kps}

\* C23: the textbook of an ingestion is created "processing"; it is
\* "completed", with processed_at set, only when the ingestion ran to its end and
\* every knowledge point the strategy returned and every ability target and
\* common mistake extracted for them is stored; the textbook of an ingestion
\* that raised is not "completed".
C23_CompletedOnlyAfterAllStored ==
    \A i \in 1..Len(ingestions) :
        LET tb == ingestions[i].textbook
        IN  tb > 0 =>
              /\ db.textbooks[tb].extraction_status \in {"processing", "completed"}
              /\ db.textbooks[tb].extraction_status = "completed" =>
                    /\ db.textbooks[tb].processed_at
                    /\ ingestions[i].outcome = "returned"
                    /\ \A k \in 1..Len(ingestions[i].extracted) :
                          LET plan == ingestions[i].extracted[k]
                          IN  /\ KnowledgePointsOf(plan, tb) \subseteq db.knowledge_points
                              /\ AbilityTargetsOf(plan, tb) \subseteq db.ability_targets
                              /\ CommonMistakesOf(plan, tb) \subseteq db.common_mistakes
              /\ ingestions[i].outcome = "raised" =>
                    db.textbooks[tb].extraction_status # "completed"

\* One ingestion stored a knowledge point with a target and a mistake and was
\* marked "completed"; another one raised while storing and was not.
C23_Witness ==
    \E i, j \in 1..Len(ingestions) :
        /\ ingestions[i].textbook > 0
        /\ db.textbooks[ingestions[i].textbook].extraction_status = "completed"
        /\ Len(ingestions[i].extracted) = 1
        /\ ingestions[i].extracted[1].kps > 0
        /\ AbilityTargetsOf(ingestions[i].extracted[1], ingestions[i].textbook) # {}
        /\ CommonMistakesOf(ingestions[i].extracted[1], ingestions[i].textbook) # {}
        /\ ingestions[j].outcome = "raised"
        /\ ingestions[j].textbook > 0
        /\ \E row \in db.knowledge_points : row.textbook = ingestions[j].textbook

\* C24: when an ingestion raised after it created its textbook, the textbook
\* is not left "processing": it is marked "failed", or the record is gone.
C24_RaisedIngestionNotLeftProcessing ==
    \A i \in 1..Len(ingestions) :
        LET tb == ingestions[i].textbook
        IN  (ingestions[i].outcome = "raised" /\ tb > 0) =>
                \/ tb > Len(db.textbooks)
                \/ db.textbooks[tb].extraction_status # "processing"

----------------------------------------------------------------------------
(* Properties of the write operations of the gateway (GatewaySpec)         *)

\* Whether the store holds what a statement of a call wrote.
Committed(statement, before) ==
    CASE statement.stmt = "add" -> stored[statement.row] = "new"
      [] statement.stmt = "merge" -> stored[statement.row] # "absent"
      [] statement.stmt = "delete" -> stored[statement.row] = "absent"
      [] statement.stmt = "update" ->
            stored[statement.row] =
                (IF before[statement.row] = "absent" THEN "absent" ELSE "changed")
      [] statement.stmt = "execute" -> stored[LinkOf(statement.row)] = "new"
      [] OTHER -> TRUE

\* C25: a write operation of the gateway is all-or-nothing: when it returns,
\* everything it wrote is committed; when it raises, the store is as it was
\* before the call.
C25_WriteIsAllOrNothing ==
    LET statements == Statements(gatewayCall.op, gatewayCall.args)
    IN  /\ gatewayCall.outcome = "returned" =>
              \A k \in 1..Len(statements) : Committed(statements[k], gatewayCall.before)
        /\ gatewayCall.outcome = "raised" => stored = gatewayCall.before

\* The part of C25 that the code keeps: a call that raised before or in its
\* commit left the store as it was.
C25_RaisedBeforeCommitChangesNothing ==
    LET statements == Statements(gatewayCall.op, gatewayCall.args)
    IN  (/\ gatewayCall.outcome = "raised"
         /\ statements[gatewayCall.at].stmt # "refresh") =>
            stored = gatewayCall.before

----------------------------------------------------------------------------
(* Properties of the toolkit of an agent (ToolkitSpec)                     *)

\* C26: available_actions contains "use_<name>" exactly when <name> is a key of
\* tools, which is exactly when has_tool(<name>) is true; remove_tool of a name
\* that is not a key changes nothing and does not raise.
C26_ActionsMatchTools ==
    LET kit == [tools |-> tools, available_actions |-> available_actions]
    IN  /\ \A n \in ToolNames :
              /\ InList(available_actions, ActionOf(n)) <=> DictHas(tools, n)
              /\ DictHas(tools, n) <=> has_tool(kit, n)
        /\ (/\ agentCall.op = "remove_tool"
            /\ ~DictHas(agentCall.before.tools, agentCall.tool_name)) =>
               /\ ~agentCall.raised
               /\ kit = agentCall.before

\* The part of C26 about remove_tool of an absent name, on its own.
C26_RemoveAbsentChangesNothing ==
    (/\ agentCall.op = "remove_tool"
     /\ ~DictHas(agentCall.before.tools, agentCall.tool_name)) =>
        /\ ~agentCall.raised
        /\ tools = agentCall.before.tools
        /\ available_actions = agentCall.before.available_actions

----------------------------------------------------------------------------
(* Properties of the parameter definitions of a tool (ParameterSpec)       *)

\* How often a value occurs in a list.
Occurrences(list, x) == Cardinality({i \in 1..Len(list) : list[i] = x})

\* C27: required_parameters contains a name exactly when the name is a key of
\* parameters whose definition has required = True, and contains it at most once.
C27_RequiredListMatchesDefinitions ==
    \A n \in ParameterNames :
        /\ InList(required_parameters, n)
               <=> (/\ DictHas(parameters, n)
                    /\ DictGet(parameters, n, Definition(FALSE)).required)
        /\ Occurrences(required_parameters, n) <= 1

----------------------------------------------------------------------------
(* Properties of the tool interfaces (ToolSpec)                            *)

\* C28: an operation name that validate_parameters accepts is one that execute
\* dispatches to a tool method: some user_query and submissions make execute
\* call the method, and execute never answers the name, whatever the
\* arguments, only with "Unknown or invalid operation".
C28_ValidatedOperationIsDispatched ==
    toolCall.valid =>
        \E user_query \in UserQueries, submissions \in SubmissionLists :
            execute(toolCall.tool, toolCall.operation, user_query, submissions).kind
                = "dispatched"

\* The stronger reading of C28: the execute call of a validated operation is
\* not answered with "Unknown or invalid operation".
C28_ValidatedCallIsNotUnknown ==
    toolCall.valid => toolCall.result # UnknownOperation

\* C29: every request a method of EduAgentAPIClient issues has a route for its
\* path and its HTTP method: no client method is answered with 404 or 405.
C29_ClientRequestsHaveRoutes ==
    httpResponse.client # None => httpResponse.status \notin {404, 405}

\* The client methods other than get_class_analytics do reach their endpoint.
C29_OtherClientMethodsReachTheirEndpoint ==
    (httpResponse.client # None /\ httpResponse.client # "get_class_analytics")
        => httpResponse.endpoint = httpResponse.client

====
